---------------------------- MODULE Spec2Model ----------------------------
(***************************************************************************)
(* A model of the MoltSpeak Python SDK: the single-file SDK                *)
(* (sdk/python/moltspeak.py, working on wire dictionaries) and the package *)
(* (sdk/python/moltspeak/, working on Message objects).                    *)
(*                                                                         *)
(* Text is modelled as sequences of one-character strings, JSON data as    *)
(* tagged records whose objects keep their key insertion order, so that    *)
(* json.dumps, sorted(), the PII regular expressions and the signature     *)
(* over the serialized bytes are computed rather than assumed.             *)
(***************************************************************************)
EXTENDS Integers, Sequences, FiniteSets, TLC

VARIABLES
    message,      \* validation: the wire dictionary handed to the validators
    strict,       \* validation: validate_message's strict flag at the last call
    check_pii,    \* validation: validate_message's check_pii flag at the last call
    clock,        \* validation: what now() returns, in ms since the epoch
    called,       \* validation: the validator called last, "none" before any call
    result,       \* validation: the ValidationResult validate_message returned
    cv_result,    \* validation: what ClassificationValidator.validate_message returned
    mv_result,    \* validation: what Message.validate returned
    impl,         \* signing: the implementation the run drives, "sdk" or "agent"
    NACL_AVAILABLE, \* signing: whether the build imported PyNaCl (crypto.py:13-20)
    heap,         \* signing: the message objects alive, by reference (1, 2, ...)
    snapshot,     \* signing: the callers' messages as they were handed to the run
    signed_of,    \* signing: per caller's message, the reference sign returned
    signed_with,  \* signing: per caller's message, the private key it was signed with
    signed_as,    \* signing: per caller's message, the signed message as sign returned it
    verify_ref,   \* signing: the message the last verify was given
    verify_key,   \* signing: the public key the last verify was given
    verify_out,   \* signing: how the last verify ended
    codec_api,    \* codec: the implementation the run drives, "sdk" or "package"
    original,     \* codec: the caller's message (a dict, or a Message of the package)
    held,         \* codec: the dict the caller wraps and unwraps
    wrap_flags,   \* codec: the compressed flag of each wrap_in_envelope call so far
    unwraps,      \* codec: how many unwrap_envelope calls have returned
    unwrap_arg,   \* codec: the envelope the last unwrap_envelope was given
    unwrap_out,   \* codec: how the last unwrap_envelope ended
    wire,         \* codec: the JSON text encode / to_json returned
    wire_opts,    \* codec: the pretty and envelope flags encode was given
    decode_opts,  \* codec: the validate and should_unwrap flags decode was given
    decoded,      \* codec: how decode / from_json of the wire text ended
    builder,      \* builder: the MessageBuilder object, as the calls so far left it
    build_validate, \* builder: the validate flag of the last build call
    built,        \* builder: how the last build call ended
    mask_api,     \* masking: the implementation the run drives, "sdk" or "package"
    mask_text,    \* masking: the text handed to the first mask call
    mask_types,   \* masking: mask_pii's types argument (<<>> stands for None)
    mask_with,    \* masking: the mask_char argument of both calls
    mask_calls,   \* masking: how many mask calls have returned
    masked,       \* masking: what the first mask call returned
    remasked,     \* masking: what the mask call on the first call's result returned
    sessions,     \* sessions: SessionManager._sessions, in insertion order
    by_remote,    \* sessions: SessionManager._by_remote, remote_agent -> session ids
    max_sessions, \* sessions: SessionManager.max_sessions
    default_ttl,  \* sessions: SessionManager.default_ttl, in seconds
    time_ms,      \* sessions: what int(time.time() * 1000) returns
    tokens,       \* sessions: how many session ids secrets.token_hex has handed out
    session_call, \* sessions: the last operation called and its argument
    session_out,  \* sessions: what the last operation returned
    sessions_before \* sessions: _sessions as the last operation found it

vars == <<message, strict, check_pii, clock, called, result, cv_result, mv_result,
          impl, NACL_AVAILABLE, heap, snapshot, signed_of, signed_with, signed_as,
          verify_ref, verify_key, verify_out,
          codec_api, original, held, wrap_flags, unwraps, unwrap_arg, unwrap_out,
          wire, wire_opts, decode_opts, decoded, builder, build_validate, built,
          mask_api, mask_text, mask_types, mask_with, mask_calls, masked, remasked,
          sessions, by_remote, max_sessions, default_ttl, time_ms, tokens,
          session_call, session_out, sessions_before>>

codec_vars == <<codec_api, original, held, wrap_flags, unwraps, unwrap_arg, unwrap_out,
                wire, wire_opts, decode_opts, decoded>>
builder_vars == <<builder, build_validate, built>>
masking_vars == <<mask_api, mask_text, mask_types, mask_with, mask_calls, masked,
                  remasked>>
session_vars == <<sessions, by_remote, max_sessions, default_ttl, time_ms, tokens,
                  session_call, session_out, sessions_before>>
validation_vars == <<message, strict, check_pii, clock, called, result, cv_result,
                     mv_result>>
signing_vars == <<impl, NACL_AVAILABLE, heap, snapshot, signed_of, signed_with,
                  signed_as, verify_ref, verify_key, verify_out>>

-----------------------------------------------------------------------------
(* Text: sequences of one-character strings.                               *)

Digits == <<"0", "1", "2", "3", "4", "5", "6", "7", "8", "9">>
DigitSet == {Digits[i] : i \in 1..Len(Digits)}
LowerLetters == {"a", "b", "c", "d", "e", "f", "g", "h", "i", "j", "k", "l", "m",
                 "n", "o", "p", "q", "r", "s", "t", "u", "v", "w", "x", "y", "z"}
UpperLetters == {"A", "B", "C", "D", "E", "F", "G", "H", "I", "J", "K", "L", "M",
                 "N", "O", "P", "Q", "R", "S", "T", "U", "V", "W", "X", "Y", "Z"}
LetterSet == LowerLetters \cup UpperLetters
HexSet == DigitSet \cup {"a", "b", "c", "d", "e", "f", "A", "B", "C", "D", "E", "F"}
WordSet == LetterSet \cup DigitSet \cup {"_"}

\* The characters the model uses, in ASCII order: the order sorted() and
\* sort_keys compare strings by.
AsciiOrder == <<" ", "\"", "%", "'", "(", ")", "+", ",", "-", ".", "/">>
              \o Digits
              \o <<":", "=", "@",
                   "A", "B", "C", "D", "E", "F", "G", "H", "I", "J", "K", "L", "M",
                   "N", "O", "P", "Q", "R", "S", "T", "U", "V", "W", "X", "Y", "Z",
                   "[", "]", "_",
                   "a", "b", "c", "d", "e", "f", "g", "h", "i", "j", "k", "l", "m",
                   "n", "o", "p", "q", "r", "s", "t", "u", "v", "w", "x", "y", "z",
                   "{", "|", "}">>
\* The ASCII code of each of them.
AsciiCodes == <<32, 34, 37, 39, 40, 41, 43, 44, 45, 46, 47>>
              \o [i \in 1..10 |-> 47 + i]
              \o <<58, 61, 64>>
              \o [i \in 1..26 |-> 64 + i]
              \o <<91, 93, 95>>
              \o [i \in 1..26 |-> 96 + i]
              \o <<123, 124, 125>>

CharRank(c) == CHOOSE i \in 1..Len(AsciiOrder) : AsciiOrder[i] = c
\* ord(c)
CharCode(c) == AsciiCodes[CharRank(c)]

RECURSIVE LexLess(_, _)
LexLess(a, b) ==
    IF b = <<>> THEN FALSE
    ELSE IF a = <<>> THEN TRUE
    ELSE IF Head(a) = Head(b) THEN LexLess(Tail(a), Tail(b))
    ELSE CharRank(Head(a)) < CharRank(Head(b))

StartsWith(text, prefix) ==
    /\ Len(text) >= Len(prefix)
    /\ SubSeq(text, 1, Len(prefix)) = prefix

Take(text, n) == SubSeq(text, 1, IF Len(text) < n THEN Len(text) ELSE n)

RECURSIVE NatText(_)
NatText(n) ==
    IF n < 10 THEN <<Digits[n + 1]>>
    ELSE NatText(n \div 10) \o <<Digits[(n % 10) + 1]>>

IntText(n) == IF n < 0 THEN <<"-">> \o NatText(0 - n) ELSE NatText(n)

-----------------------------------------------------------------------------
(* base64.b64encode, computed on the bytes of an ASCII text.               *)

B64Alphabet == <<"A", "B", "C", "D", "E", "F", "G", "H", "I", "J", "K", "L", "M",
                 "N", "O", "P", "Q", "R", "S", "T", "U", "V", "W", "X", "Y", "Z",
                 "a", "b", "c", "d", "e", "f", "g", "h", "i", "j", "k", "l", "m",
                 "n", "o", "p", "q", "r", "s", "t", "u", "v", "w", "x", "y", "z">>
               \o Digits \o <<"+", "/">>

\* Three bytes (the last group may hold one or two) as four characters.
B64Group(bytes) ==
    LET b1 == bytes[1]
        b2 == IF Len(bytes) >= 2 THEN bytes[2] ELSE 0
        b3 == IF Len(bytes) >= 3 THEN bytes[3] ELSE 0
        bits == b1 * 65536 + b2 * 256 + b3
    IN <<B64Alphabet[(bits \div 262144) + 1],
         B64Alphabet[((bits \div 4096) % 64) + 1],
         IF Len(bytes) >= 2 THEN B64Alphabet[((bits \div 64) % 64) + 1] ELSE "=",
         IF Len(bytes) >= 3 THEN B64Alphabet[(bits % 64) + 1] ELSE "=">>

RECURSIVE B64Bytes(_)
B64Bytes(bytes) ==
    IF bytes = <<>> THEN <<>>
    ELSE IF Len(bytes) <= 3 THEN B64Group(bytes)
    ELSE B64Group(SubSeq(bytes, 1, 3)) \o B64Bytes(SubSeq(bytes, 4, Len(bytes)))

\* base64.b64encode(text.encode()).decode()
b64encode(text) == B64Bytes([i \in 1..Len(text) |-> CharCode(text[i])])

-----------------------------------------------------------------------------
(* JSON data. A value is a record [kind, s, n, o]: kind says which of the  *)
(* other fields is meant. An object (a Python dict) is the sequence of its *)
(* <<key, value>> pairs in insertion order, an array the sequence of       *)
(* <<<<>>, value>> pairs; keys are texts.                                   *)

JNull == [kind |-> "null", s |-> <<>>, n |-> 0, o |-> <<>>]
JStr(text) == [kind |-> "str", s |-> text, n |-> 0, o |-> <<>>]
JNum(i) == [kind |-> "num", s |-> <<>>, n |-> i, o |-> <<>>]
JBool(b) == [kind |-> "bool", s |-> <<>>, n |-> IF b THEN 1 ELSE 0, o |-> <<>>]
JObj(pairs) == [kind |-> "obj", s |-> <<>>, n |-> 0, o |-> pairs]
JArr(items) == [kind |-> "arr", s |-> <<>>, n |-> 0,
                o |-> [i \in 1..Len(items) |-> <<<<>>, items[i]>>]]

IsDict(v) == v.kind = "obj"
IsStr(v) == v.kind = "str"
\* isinstance(x, (int, float)); bool is a subclass of int in Python.
IsNumber(v) == v.kind \in {"num", "bool"}

\* k in d
Has(d, k) == \E i \in 1..Len(d.o) : d.o[i][1] = k
\* d[k], for a key that is there
Get(d, k) == d.o[CHOOSE i \in 1..Len(d.o) : d.o[i][1] = k][2]
\* d.get(k): None when the key is missing
GetOrNone(d, k) == IF Has(d, k) THEN Get(d, k) ELSE JNull
\* d.get(k, {})
GetOrEmpty(d, k) == IF Has(d, k) THEN Get(d, k) ELSE JObj(<<>>)
\* d[k] = v: a key that is there keeps its place, a new key goes last
DictSet(d, k, v) ==
    IF Has(d, k)
    THEN JObj([i \in 1..Len(d.o) |-> IF d.o[i][1] = k THEN <<k, v>> ELSE d.o[i]])
    ELSE JObj(Append(d.o, <<k, v>>))
\* d.pop(k, None)
DictPop(d, k) == JObj(SelectSeq(d.o, LAMBDA pr : pr[1] # k))

\* bool(x)
Truthy(v) ==
    CASE v.kind = "null" -> FALSE
      [] v.kind = "str" -> v.s # <<>>
      [] v.kind \in {"num", "bool"} -> v.n # 0
      [] OTHER -> v.o # <<>>

\* sorted() on pairs by key: insertion into an already sorted sequence.
RECURSIVE InsertSorted(_, _)
InsertSorted(sorted, pr) ==
    IF sorted = <<>> THEN <<pr>>
    ELSE IF LexLess(pr[1], Head(sorted)[1]) THEN <<pr>> \o sorted
    ELSE <<Head(sorted)>> \o InsertSorted(Tail(sorted), pr)

RECURSIVE SortPairs(_)
SortPairs(pairs) ==
    IF pairs = <<>> THEN <<>>
    ELSE InsertSorted(SortPairs(SubSeq(pairs, 1, Len(pairs) - 1)), pairs[Len(pairs)])

\* json.dumps(v, sort_keys=sortKeys, separators=(itemSep, keySep)).
RECURSIVE DumpsWith(_, _, _, _)
RECURSIVE DumpsItems(_, _, _, _, _)

DumpsItems(pairs, isObj, sortKeys, itemSep, keySep) ==
    IF pairs = <<>> THEN <<>>
    ELSE (IF isObj THEN <<"\"">> \o Head(pairs)[1] \o <<"\"">> \o keySep ELSE <<>>)
         \o DumpsWith(Head(pairs)[2], sortKeys, itemSep, keySep)
         \o (IF Len(pairs) > 1 THEN itemSep ELSE <<>>)
         \o DumpsItems(Tail(pairs), isObj, sortKeys, itemSep, keySep)

DumpsWith(v, sortKeys, itemSep, keySep) ==
    CASE v.kind = "null" -> <<"n", "u", "l", "l">>
      [] v.kind = "bool" -> IF v.n = 1 THEN <<"t", "r", "u", "e">>
                            ELSE <<"f", "a", "l", "s", "e">>
      [] v.kind = "num" -> IntText(v.n)
      [] v.kind = "str" -> <<"\"">> \o v.s \o <<"\"">>
      [] v.kind = "arr" ->
            <<"[">> \o DumpsItems(v.o, FALSE, sortKeys, itemSep, keySep) \o <<"]">>
      [] OTHER ->
            <<"{">> \o DumpsItems(IF sortKeys THEN SortPairs(v.o) ELSE v.o,
                                  TRUE, sortKeys, itemSep, keySep) \o <<"}">>

\* json.dumps(v): keys in insertion order, separators ", " and ": ".
Dumps(v) == DumpsWith(v, FALSE, <<",", " ">>, <<":", " ">>)

\* A long run of one character, kept as one element of a text: FillerRun
\* stands for FillerLen consecutive "~" (a character of no PII pattern, that
\* json.dumps leaves as it is).
FillerRun == "~~"
FillerLen == 1024 * 1024 - 256

\* A character outside the Basic Multilingual Plane (an emoji), as one element
\* of a text; json.dumps writes it as the 12 characters of its \uXXXX\uXXXX
\* escape, which no PII pattern of a payload ever sees in an agent name.
Emoji == "U+1F916"

\* len(text.encode("utf-8")), on the text json.dumps returned: every
\* character of it is ASCII.
byte_size(text) ==
    Len(text) + (FillerLen - 1) * Cardinality({i \in 1..Len(text) : text[i] = FillerRun})
              + 11 * Cardinality({i \in 1..Len(text) : text[i] = Emoji})

\* copy.deepcopy(obj): a value equal to obj that shares nothing with it; where
\* sharing matters the copy is put at a fresh reference of the heap.
deep_clone(obj) == obj

-----------------------------------------------------------------------------
(* json.dumps(indent=2) and json.loads, on the texts the model handles:    *)
(* strings without escapes, integers, true, false, null, lists and dicts.  *)

Indent(level) == [i \in 1..(2 * level) |-> " "]

RECURSIVE DumpsIndent(_, _)
RECURSIVE DumpsIndentItems(_, _, _)
DumpsIndentItems(pairs, isObj, level) ==
    IF pairs = <<>> THEN <<>>
    ELSE Indent(level)
         \o (IF isObj THEN <<"\"">> \o Head(pairs)[1] \o <<"\"", ":", " ">> ELSE <<>>)
         \o DumpsIndent(Head(pairs)[2], level)
         \o (IF Len(pairs) > 1 THEN <<",">> ELSE <<>>)
         \o <<"\n">>
         \o DumpsIndentItems(Tail(pairs), isObj, level)
\* json.dumps(v, indent=2), for a value that sits `level` containers deep
DumpsIndent(v, level) ==
    CASE v.kind = "null" -> <<"n", "u", "l", "l">>
      [] v.kind = "bool" -> IF v.n = 1 THEN <<"t", "r", "u", "e">>
                            ELSE <<"f", "a", "l", "s", "e">>
      [] v.kind = "num" -> IntText(v.n)
      [] v.kind = "str" -> <<"\"">> \o v.s \o <<"\"">>
      [] v.kind = "arr" ->
            IF v.o = <<>> THEN <<"[", "]">>
            ELSE <<"[", "\n">> \o DumpsIndentItems(v.o, FALSE, level + 1)
                 \o Indent(level) \o <<"]">>
      [] OTHER ->
            IF v.o = <<>> THEN <<"{", "}">>
            ELSE <<"{", "\n">> \o DumpsIndentItems(v.o, TRUE, level + 1)
                 \o Indent(level) \o <<"}">>

Min(S) == CHOOSE x \in S : \A y \in S : x <= y
\* The character at position i, "" past the end of the text.
At(text, i) == IF i >= 1 /\ i <= Len(text) THEN text[i] ELSE ""
\* The first position from i on that holds no white space.
NextNonSpace(text, i) ==
    LET rest == {j \in i..Len(text) : text[j] \notin {" ", "\n"}}
    IN IF rest = {} THEN Len(text) + 1 ELSE Min(rest)
\* The first position from i on that holds none of the characters.
NextOutside(text, i, chars) ==
    LET rest == {j \in i..Len(text) : text[j] \notin chars}
    IN IF rest = {} THEN Len(text) + 1 ELSE Min(rest)
WordAt(text, i, word) ==
    i + Len(word) - 1 <= Len(text) /\ SubSeq(text, i, i + Len(word) - 1) = word

\* What a parser step gives: the value read and the position after it.
NoParse == [ok |-> FALSE, v |-> JNull, i |-> 0]
Parsed(v, i) == [ok |-> TRUE, v |-> v, i |-> i]

RECURSIVE DigitsValue(_)
DigitsValue(ds) ==
    IF ds = <<>> THEN 0
    ELSE DigitsValue(SubSeq(ds, 1, Len(ds) - 1)) * 10
         + (CHOOSE d \in 0..9 : Digits[d + 1] = ds[Len(ds)])

ParseString(text, i) ==
    LET close == {j \in (i + 1)..Len(text) : text[j] = "\""}
    IN IF At(text, i) # "\"" \/ close = {} THEN NoParse
       ELSE Parsed(JStr(SubSeq(text, i + 1, Min(close) - 1)), Min(close) + 1)

ParseNumber(text, i) ==
    LET start == IF At(text, i) = "-" THEN i + 1 ELSE i
        stop == NextOutside(text, start, DigitSet)
        value == DigitsValue(SubSeq(text, start, stop - 1))
    IN IF stop = start THEN NoParse
       ELSE Parsed(JNum(IF start > i THEN 0 - value ELSE value), stop)

RECURSIVE ParseValue(_, _)
RECURSIVE ParseItems(_, _, _, _)
\* The members of a dict or the items of a list, from the first one at i on.
ParseItems(text, i, isObj, acc) ==
    LET key == IF isObj THEN ParseString(text, i) ELSE Parsed(JStr(<<>>), i)
        colon == NextNonSpace(text, key.i)
        val == IF ~isObj THEN ParseValue(text, i)
               ELSE IF key.ok /\ At(text, colon) = ":" THEN ParseValue(text, colon + 1)
               ELSE NoParse
        after == NextNonSpace(text, val.i)
        acc2 == IF isObj THEN DictSet(JObj(acc), key.v.s, val.v).o
                ELSE Append(acc, <<<<>>, val.v>>)
    IN IF ~val.ok THEN NoParse
       ELSE IF At(text, after) = ","
       THEN ParseItems(text, NextNonSpace(text, after + 1), isObj, acc2)
       ELSE IF At(text, after) = (IF isObj THEN "}" ELSE "]")
       THEN Parsed([kind |-> IF isObj THEN "obj" ELSE "arr", s |-> <<>>, n |-> 0,
                    o |-> acc2], after + 1)
       ELSE NoParse
ParseValue(text, i0) ==
    LET i == NextNonSpace(text, i0)
        c == At(text, i)
        first == NextNonSpace(text, i + 1)
    IN CASE c = "\"" -> ParseString(text, i)
         [] c = "{" -> IF At(text, first) = "}" THEN Parsed(JObj(<<>>), first + 1)
                       ELSE ParseItems(text, first, TRUE, <<>>)
         [] c = "[" -> IF At(text, first) = "]" THEN Parsed(JArr(<<>>), first + 1)
                       ELSE ParseItems(text, first, FALSE, <<>>)
         [] c \in DigitSet \cup {"-"} -> ParseNumber(text, i)
         [] WordAt(text, i, <<"n", "u", "l", "l">>) -> Parsed(JNull, i + 4)
         [] WordAt(text, i, <<"t", "r", "u", "e">>) -> Parsed(JBool(TRUE), i + 4)
         [] WordAt(text, i, <<"f", "a", "l", "s", "e">>) -> Parsed(JBool(FALSE), i + 5)
         [] OTHER -> NoParse

\* json.loads(text): ok is false where it raises JSONDecodeError
json_loads(text) ==
    LET r == ParseValue(text, 1)
    IN IF r.ok /\ NextNonSpace(text, r.i) = Len(text) + 1 THEN r ELSE NoParse

-----------------------------------------------------------------------------
(* Regular expressions, matched the way a backtracking matcher decides     *)
(* them: a set of positions (the index of the next unread character) is    *)
(* pushed through the pattern, piece by piece.                             *)

\* One character of class cls.
Step(text, S, cls) == {i + 1 : i \in {j \in S : j <= Len(text) /\ text[j] \in cls}}
\* x?
Opt(text, S, cls) == S \cup Step(text, S, cls)
\* x{k}
RECURSIVE Times(_, _, _, _)
Times(text, S, cls, k) ==
    IF k = 0 THEN S ELSE Times(text, Step(text, S, cls), cls, k - 1)
\* x{lo,hi}
Between(text, S, cls, lo, hi) == UNION {Times(text, S, cls, k) : k \in lo..hi}
\* x*
RECURSIVE Star(_, _, _)
Star(text, S, cls) ==
    LET more == Step(text, S, cls) \ S
    IN IF more = {} THEN S ELSE Star(text, S \cup more, cls)
\* x+
Plus(text, S, cls) == Star(text, Step(text, S, cls), cls)
\* \b: a word character on exactly one side of the position.
IsWordAt(text, i) == i >= 1 /\ i <= Len(text) /\ text[i] \in WordSet
WordBoundary(text, S) == {i \in S : IsWordAt(text, i - 1) # IsWordAt(text, i)}
\* A literal word, letter case ignored (re.IGNORECASE).
LowerOf(c) ==
    IF c \in UpperLetters
    THEN AsciiOrder[CharRank(c) - CharRank("A") + CharRank("a")]
    ELSE c
RECURSIVE Literal(_, _, _)
Literal(text, S, word) ==
    IF word = <<>> THEN S
    ELSE Literal(text,
                 {i + 1 : i \in {j \in S : j <= Len(text)
                                           /\ LowerOf(text[j]) = LowerOf(Head(word))}},
                 Tail(word))
\* Every position a match may start at.
AnyStart(text) == 1..(Len(text) + 1)

EmailLocalSet == LetterSet \cup DigitSet \cup {".", "_", "%", "+", "-"}
EmailDomainSet == LetterSet \cup DigitSet \cup {".", "-"}
SeparatorSet == {"-", ".", " "}

\* [a-zA-Z0-9._%+-]+@[a-zA-Z0-9.-]+\.[a-zA-Z]{2,}
MatchEmail(text) ==
    LET a == Plus(text, AnyStart(text), EmailLocalSet)
        b == Step(text, a, {"@"})
        c == Plus(text, b, EmailDomainSet)
        d == Step(text, c, {"."})
    IN Times(text, d, LetterSet, 2) # {}

\* (\+?\d{1,3}[-.\s]?)?\(?\d{3}\)?[-.\s]?\d{3}[-.\s]?\d{4}
MatchPhone(text) ==
    LET start == AnyStart(text)
        cc == Opt(text, Between(text, Opt(text, start, {"+"}), DigitSet, 1, 3),
                  SeparatorSet)
        a == Opt(text, start \cup cc, {"("})
        b == Opt(text, Times(text, a, DigitSet, 3), {")"})
        c == Times(text, Opt(text, b, SeparatorSet), DigitSet, 3)
    IN Times(text, Opt(text, c, SeparatorSet), DigitSet, 4) # {}

\* \b\d{3}[-]?\d{2}[-]?\d{4}\b
MatchSSN(text) ==
    LET a == Times(text, WordBoundary(text, AnyStart(text)), DigitSet, 3)
        b == Times(text, Opt(text, a, {"-"}), DigitSet, 2)
        c == Times(text, Opt(text, b, {"-"}), DigitSet, 4)
    IN WordBoundary(text, c) # {}

\* \b(?:\d{4}[-\s]?){3}\d{4}\b
MatchCreditCard(text) ==
    LET grp(S) == Opt(text, Times(text, S, DigitSet, 4), {"-", " "})
        a == grp(grp(grp(WordBoundary(text, AnyStart(text)))))
    IN WordBoundary(text, Times(text, a, DigitSet, 4)) # {}

\* \b(?:\d{1,3}\.){3}\d{1,3}\b
MatchIPv4(text) ==
    LET grp(S) == Step(text, Between(text, S, DigitSet, 1, 3), {"."})
        a == grp(grp(grp(WordBoundary(text, AnyStart(text)))))
    IN WordBoundary(text, Between(text, a, DigitSet, 1, 3)) # {}

StreetWords ==
    {<<"s", "t", "r", "e", "e", "t">>, <<"s", "t">>, <<"a", "v", "e", "n", "u", "e">>,
     <<"a", "v", "e">>, <<"b", "o", "u", "l", "e", "v", "a", "r", "d">>,
     <<"b", "l", "v", "d">>, <<"r", "o", "a", "d">>, <<"r", "d">>,
     <<"l", "a", "n", "e">>, <<"l", "n">>, <<"d", "r", "i", "v", "e">>, <<"d", "r">>,
     <<"c", "o", "u", "r", "t">>, <<"c", "t">>, <<"w", "a", "y">>,
     <<"p", "l", "a", "c", "e">>, <<"p", "l">>}

\* \b\d{1,5}\s+(?:[A-Za-z]+\s+){1,4}(?:Street|St|...|Place|Pl)\b, letter case ignored
MatchAddress(text) ==
    LET grp(S) == Plus(text, Plus(text, S, LetterSet), {" "})
        a == Plus(text, Between(text, WordBoundary(text, AnyStart(text)), DigitSet, 1, 5),
                  {" "})
        b == grp(a) \cup grp(grp(a)) \cup grp(grp(grp(a))) \cup grp(grp(grp(grp(a))))
    IN WordBoundary(text, UNION {Literal(text, b, w) : w \in StreetWords}) # {}

\* \b(?:0?[1-9]|1[0-2])[-/](?:0?[1-9]|[12]\d|3[01])[-/](?:19|20)\d{2}\b
MatchDOB(text) ==
    LET start == WordBoundary(text, AnyStart(text))
        nonzero == DigitSet \ {"0"}
        month == Step(text, Opt(text, start, {"0"}), nonzero)
                 \cup Step(text, Step(text, start, {"1"}), {"0", "1", "2"})
        a == Step(text, month, {"-", "/"})
        day == Step(text, Opt(text, a, {"0"}), nonzero)
               \cup Step(text, Step(text, a, {"1", "2"}), DigitSet)
               \cup Step(text, Step(text, a, {"3"}), {"0", "1"})
        b == Step(text, day, {"-", "/"})
        year == Literal(text, b, <<"1", "9">>) \cup Literal(text, b, <<"2", "0">>)
    IN WordBoundary(text, Times(text, year, DigitSet, 2)) # {}

\* PII_PATTERNS, in the dictionary's order: the name of each pattern.
PII_TYPES == << <<"e", "m", "a", "i", "l">>, <<"p", "h", "o", "n", "e">>,
                <<"s", "s", "n">>,
                <<"c", "r", "e", "d", "i", "t", "_", "c", "a", "r", "d">>,
                <<"i", "p", "v", "4">>, <<"a", "d", "d", "r", "e", "s", "s">>,
                <<"d", "o", "b">> >>

\* PII_PATTERNS[name].findall(text) finds something
PII_PATTERNS(i, text) ==
    CASE i = 1 -> MatchEmail(text)
      [] i = 2 -> MatchPhone(text)
      [] i = 3 -> MatchSSN(text)
      [] i = 4 -> MatchCreditCard(text)
      [] i = 5 -> MatchIPv4(text)
      [] i = 6 -> MatchAddress(text)
      [] OTHER -> MatchDOB(text)

\* ", ".join(names)
RECURSIVE JoinComma(_)
JoinComma(names) ==
    IF names = <<>> THEN <<>>
    ELSE IF Len(names) = 1 THEN names[1]
    ELSE names[1] \o <<",", " ">> \o JoinComma(Tail(names))

\* A detector that reads the payload's own strings and skips what is nested.
detect_pii_top_level_only(data) ==
    LET own == SelectSeq(data.o, LAMBDA pr : IsStr(pr[2]))
        text_to_scan == IF IsStr(data) THEN data.s
                        ELSE Dumps(JArr([i \in 1..Len(own) |-> own[i][2]]))
        found == SelectSeq([i \in 1..Len(PII_TYPES) |-> i],
                           LAMBDA i : PII_PATTERNS(i, text_to_scan))
    IN [has_pii |-> found # <<>>,
        types |-> [i \in 1..Len(found) |-> PII_TYPES[found[i]]]]

\* detect_pii(data): has_pii, and the types found (here in the table's order;
\* the code lists a set, whose order is not fixed).
detect_pii(data) ==
    LET text_to_scan == IF IsStr(data) THEN data.s ELSE Dumps(data)
        found == SelectSeq([i \in 1..Len(PII_TYPES) |-> i],
                           LAMBDA i : PII_PATTERNS(i, text_to_scan))
    IN [has_pii |-> found # <<>>,
        types |-> [i \in 1..Len(found) |-> PII_TYPES[found[i]]]]

-----------------------------------------------------------------------------
(* The single-file SDK: constants and validate_message.                    *)

K_v == <<"v">>
K_id == <<"i", "d">>
K_ts == <<"t", "s">>
K_op == <<"o", "p">>
K_from == <<"f", "r", "o", "m">>
K_to == <<"t", "o">>
K_p == <<"p">>
K_cls == <<"c", "l", "s">>
K_sig == <<"s", "i", "g">>
K_exp == <<"e", "x", "p">>
K_pii_meta == <<"p", "i", "i", "_", "m", "e", "t", "a">>
K_agent == <<"a", "g", "e", "n", "t">>
K_org == <<"o", "r", "g">>
K_key == <<"k", "e", "y">>
K_consent == <<"c", "o", "n", "s", "e", "n", "t">>
K_proof == <<"p", "r", "o", "o", "f">>

PROTOCOL_VERSION == <<"0", ".", "1">>

\* class Operations
Operations == {<<"h", "e", "l", "l", "o">>, <<"v", "e", "r", "i", "f", "y">>,
               <<"q", "u", "e", "r", "y">>, <<"r", "e", "s", "p", "o", "n", "d">>,
               <<"t", "a", "s", "k">>, <<"s", "t", "r", "e", "a", "m">>,
               <<"t", "o", "o", "l">>, <<"c", "o", "n", "s", "e", "n", "t">>,
               <<"e", "r", "r", "o", "r">>}

CLS_PUBLIC == <<"p", "u", "b">>
CLS_INTERNAL == <<"i", "n", "t">>
CLS_CONFIDENTIAL == <<"c", "o", "n", "f">>
CLS_PII == <<"p", "i", "i">>
CLS_SECRET == <<"s", "e", "c">>
\* class Classifications
Classifications == {CLS_PUBLIC, CLS_INTERNAL, CLS_CONFIDENTIAL, CLS_PII, CLS_SECRET}

\* SizeLimits.SINGLE_MESSAGE
SINGLE_MESSAGE == 1 * 1024 * 1024
\* MAX_AGE_MS, the replay window
MAX_AGE_MS == 5 * 60 * 1000

\* ValidationResult(valid=True)
NewResult == [valid |-> TRUE, errors |-> <<>>, warnings |-> <<>>]
\* A result that takes an error and stays valid.
AddError_KeepsValid(r, text, arg) ==
    [r EXCEPT !.errors = Append(@, [text |-> text, arg |-> arg])]

\* result.valid = False; result.errors.append(...): a message is its fixed
\* text and, as arg, the text interpolated into it.
AddError(r, text, arg) ==
    [r EXCEPT !.valid = FALSE, !.errors = Append(@, [text |-> text, arg |-> arg])]
\* result.warnings.append(...)
AddWarning(r, text, arg) ==
    [r EXCEPT !.warnings = Append(@, [text |-> text, arg |-> arg])]

HasError(r, text) == \E i \in 1..Len(r.errors) : r.errors[i].text = text
HasWarning(r, text) == \E i \in 1..Len(r.warnings) : r.warnings[i].text = text

E_NOT_DICT == "Message must be a dictionary"
E_MISSING == "Missing required field: {field}"
W_VERSION == "Protocol version mismatch: expected 0.1, got {v}"
W_OPERATION == "Unknown operation: {op}"
E_CLASSIFICATION == "Invalid classification: {cls}. Must be one of: pub, int, conf, pii, sec"
E_TS_TYPE == "Timestamp (ts) must be a number"
E_TS_SIGN == "Timestamp (ts) must be positive"
E_REPLAY == "Message timestamp too old: {age}s ago (max allowed: 300.0s). Possible replay attack."
W_UUID == "Message ID should be a valid UUID format"
W_FROM_AGENT == "from.agent is recommended"
W_TO_AGENT == "to.agent is recommended"
E_SIZE == "Message exceeds size limit: {size} bytes > 1048576 bytes"
E_PII == "PII detected without consent: {types}. Set cls to 'pii' with consent metadata."
E_EXP_TYPE == "Expiry (exp) must be a number"
W_EXPIRED == "Message has expired"

\* moltspeak.py:247-255
RECURSIVE CheckRequired(_, _, _)
CheckRequired(r, msg, fields) ==
    IF fields = <<>> THEN r
    ELSE CheckRequired(
            IF ~Has(msg, Head(fields)) \/ Get(msg, Head(fields)) = JNull
            THEN AddError(r, E_MISSING, Head(fields))
            ELSE r,
            msg, Tail(fields))

\* Required fields that do not depend on the mode.
RequiredFields_AlwaysStrict(isStrict) == <<K_v, K_id, K_ts, K_op, K_from, K_cls>>

RequiredFields(isStrict) ==
    <<K_v, K_id, K_ts, K_op>> \o (IF isStrict THEN <<K_from, K_cls>> ELSE <<>>)

\* moltspeak.py:257-261
CheckVersion(r, msg) ==
    IF Has(msg, K_v) /\ Get(msg, K_v) # JStr(PROTOCOL_VERSION)
    THEN AddWarning(r, W_VERSION, Dumps(Get(msg, K_v)))
    ELSE r

\* moltspeak.py:263-267
CheckOperation(r, msg) ==
    IF Has(msg, K_op) /\ ~(\E op \in Operations : Get(msg, K_op) = JStr(op))
    THEN AddWarning(r, W_OPERATION, Dumps(Get(msg, K_op)))
    ELSE r

\* moltspeak.py:269-277
CheckClassification(r, msg) ==
    IF Has(msg, K_cls) /\ ~(\E c \in Classifications : Get(msg, K_cls) = JStr(c))
    THEN AddError(r, E_CLASSIFICATION, Dumps(Get(msg, K_cls)))
    ELSE r

\* A replay check that takes the age for seconds.
TooOld_AgeInSeconds(message_age) == message_age > MAX_AGE_MS * 1000

\* message_age > MAX_AGE_MS
TooOld(message_age) == message_age > MAX_AGE_MS

\* moltspeak.py:279-296
CheckTimestamp(r, msg, now) ==
    IF ~Has(msg, K_ts) THEN r
    ELSE IF ~IsNumber(Get(msg, K_ts)) THEN AddError(r, E_TS_TYPE, <<>>)
    ELSE IF Get(msg, K_ts).n < 0 THEN AddError(r, E_TS_SIGN, <<>>)
    ELSE LET message_age == now - Get(msg, K_ts).n
         IN IF TooOld(message_age)
            THEN AddError(r, E_REPLAY, IntText(message_age))
            ELSE r

\* ^[0-9a-f]{8}-[0-9a-f]{4}-[0-9a-f]{4}-[0-9a-f]{4}-[0-9a-f]{12}$, letter case ignored
MatchUUID(text) ==
    LET a == Step(text, Times(text, {1}, HexSet, 8), {"-"})
        b == Step(text, Times(text, a, HexSet, 4), {"-"})
        c == Step(text, Times(text, b, HexSet, 4), {"-"})
        d == Step(text, Times(text, c, HexSet, 4), {"-"})
    IN (Len(text) + 1) \in Times(text, d, HexSet, 12)

\* moltspeak.py:298-305
CheckId(r, msg) ==
    IF Has(msg, K_id) /\ IsStr(Get(msg, K_id)) /\ ~MatchUUID(Get(msg, K_id).s)
    THEN AddWarning(r, W_UUID, <<>>)
    ELSE r

\* moltspeak.py:307-315
CheckAgentShape(r, msg, field, warning) ==
    IF Has(msg, field) /\ IsDict(Get(msg, field)) /\ ~Has(Get(msg, field), K_agent)
    THEN AddWarning(r, warning, <<>>)
    ELSE r

\* A size check that also turns away a message of exactly the limit.
CheckSize_RejectsAtLimit(r, msg) ==
    LET size == byte_size(Dumps(msg))
    IN IF size >= SINGLE_MESSAGE THEN AddError(r, E_SIZE, IntText(size)) ELSE r

\* moltspeak.py:317-324
CheckSize(r, msg) ==
    LET size == byte_size(Dumps(msg))
    IN IF size > SINGLE_MESSAGE THEN AddError(r, E_SIZE, IntText(size)) ELSE r

\* moltspeak.py:326-335
CheckPII(r, msg, checkPii) ==
    IF checkPii /\ GetOrNone(msg, K_cls) # JStr(CLS_PII)
    THEN LET payload == GetOrEmpty(msg, K_p)
             pii_result == detect_pii(payload)
         IN IF pii_result.has_pii
            THEN AddError(r, E_PII, JoinComma(pii_result.types))
            ELSE r
    ELSE r

\* moltspeak.py:337-343
CheckExpiry(r, msg, now) ==
    IF ~Has(msg, K_exp) THEN r
    ELSE IF ~IsNumber(Get(msg, K_exp)) THEN AddError(r, E_EXP_TYPE, <<>>)
    ELSE IF Get(msg, K_exp).n < now THEN AddWarning(r, W_EXPIRED, <<>>)
    ELSE r

\* validate_message(message, strict, check_pii), called when now() is `now`
validate_message(msg, isStrict, checkPii, now) ==
    IF ~IsDict(msg) THEN AddError(NewResult, E_NOT_DICT, <<>>)
    ELSE LET r1 == CheckRequired(NewResult, msg, RequiredFields(isStrict))
             r2 == CheckVersion(r1, msg)
             r3 == CheckOperation(r2, msg)
             r4 == CheckClassification(r3, msg)
             r5 == CheckTimestamp(r4, msg, now)
             r6 == CheckId(r5, msg)
             r7 == CheckAgentShape(r6, msg, K_from, W_FROM_AGENT)
             r8 == CheckAgentShape(r7, msg, K_to, W_TO_AGENT)
             r9 == CheckSize(r8, msg)
             r10 == CheckPII(r9, msg, checkPii)
         IN CheckExpiry(r10, msg, now)

-----------------------------------------------------------------------------
(* Envelopes: validate_envelope, wrap_in_envelope, unwrap_envelope.        *)

K_moltspeak == <<"m", "o", "l", "t", "s", "p", "e", "a", "k">>
K_envelope == <<"e", "n", "v", "e", "l", "o", "p", "e">>
K_encrypted == <<"e", "n", "c", "r", "y", "p", "t", "e", "d">>
K_compressed == <<"c", "o", "m", "p", "r", "e", "s", "s", "e", "d">>
K_encoding == <<"e", "n", "c", "o", "d", "i", "n", "g">>
K_message == <<"m", "e", "s", "s", "a", "g", "e">>
K_ciphertext == <<"c", "i", "p", "h", "e", "r", "t", "e", "x", "t">>
K_algorithm == <<"a", "l", "g", "o", "r", "i", "t", "h", "m">>

EE_NOT_DICT == "Envelope must be a dictionary"
EE_VERSION == "Missing moltspeak version in envelope"
EE_EMPTY == "Envelope must contain either envelope metadata or ciphertext"
EE_CIPHERTEXT == "Encrypted envelope missing ciphertext"
EE_ALGORITHM == "Encrypted envelope missing algorithm"
EE_MESSAGE == "Unencrypted envelope missing message"

\* validate_envelope raises AttributeError: envelope["envelope"] is there and
\* is no dict, so that env_meta.get fails.
validate_envelope_raises(envelope) ==
    IsDict(envelope) /\ ~IsDict(GetOrEmpty(envelope, K_envelope))

\* validate_envelope(envelope), where it does not raise
validate_envelope(envelope) ==
    IF ~IsDict(envelope) THEN AddError(NewResult, EE_NOT_DICT, <<>>)
    ELSE LET env_meta == GetOrEmpty(envelope, K_envelope)
             encrypted == Truthy(GetOrNone(env_meta, K_encrypted))
             r1 == IF ~Has(envelope, K_moltspeak)
                   THEN AddError(NewResult, EE_VERSION, <<>>) ELSE NewResult
             r2 == IF ~Has(envelope, K_envelope) /\ ~Has(envelope, K_ciphertext)
                   THEN AddError(r1, EE_EMPTY, <<>>) ELSE r1
             r3 == IF encrypted /\ ~Has(envelope, K_ciphertext)
                   THEN AddError(r2, EE_CIPHERTEXT, <<>>) ELSE r2
             r4 == IF encrypted /\ ~Has(env_meta, K_algorithm)
                   THEN AddError(r3, EE_ALGORITHM, <<>>) ELSE r3
         IN IF Truthy(env_meta) /\ ~encrypted /\ ~Has(envelope, K_message)
            THEN AddError(r4, EE_MESSAGE, <<>>) ELSE r4

\* wrap_in_envelope(message, compressed)
wrap_in_envelope(msg, compressed) ==
    JObj(<< <<K_moltspeak, JStr(PROTOCOL_VERSION)>>,
            <<K_envelope, JObj(<< <<K_encrypted, JBool(FALSE)>>,
                                  <<K_compressed, JBool(compressed)>>,
                                  <<K_encoding, JStr(<<"u", "t", "f", "-", "8">>)>> >>)>>,
            <<K_message, msg>> >>)

UE_INVALID == "Invalid envelope: {errors}"
UE_ENCRYPTED == "Cannot unwrap encrypted envelope without decryption key"

\* How a call ended: the value returned, or the exception raised and what it
\* says.
Return(value) == [raised |-> "", says |-> "", value |-> value]
Raise(exception, says) == [raised |-> exception, says |-> says, value |-> JNull]

\* The message at the core of nested envelopes.
RECURSIVE Innermost(_)
Innermost(v) ==
    IF IsDict(v) /\ Has(v, K_moltspeak) /\ Has(v, K_envelope) /\ Has(v, K_message)
    THEN Innermost(Get(v, K_message))
    ELSE v
\* An unwrap_envelope that goes on unwrapping while what it finds is an
\* envelope.
unwrap_envelope_every_layer(envelope) ==
    IF validate_envelope_raises(envelope) THEN Raise("AttributeError", "")
    ELSE IF ~validate_envelope(envelope).valid THEN Raise("ValueError", UE_INVALID)
    ELSE IF Truthy(GetOrNone(GetOrEmpty(envelope, K_envelope), K_encrypted))
    THEN Raise("ValueError", UE_ENCRYPTED)
    ELSE IF ~Has(envelope, K_message) THEN Raise("KeyError", "message")
    ELSE Return(Innermost(Get(envelope, K_message)))

\* unwrap_envelope(envelope)
unwrap_envelope(envelope) ==
    IF validate_envelope_raises(envelope) THEN Raise("AttributeError", "")
    ELSE IF ~validate_envelope(envelope).valid THEN Raise("ValueError", UE_INVALID)
    ELSE IF Truthy(GetOrNone(GetOrEmpty(envelope, K_envelope), K_encrypted))
    THEN Raise("ValueError", UE_ENCRYPTED)
    ELSE IF ~Has(envelope, K_message) THEN Raise("KeyError", "message")
    ELSE Return(Get(envelope, K_message))

-----------------------------------------------------------------------------
(* The package: Message objects, Message.validate, PIIDetector and         *)
(* ClassificationValidator.                                                 *)

\* repr(v), which str() of a dict or list uses for what it holds.
RECURSIVE PyRepr(_)
RECURSIVE PyReprItems(_, _)
PyReprItems(pairs, isObj) ==
    IF pairs = <<>> THEN <<>>
    ELSE (IF isObj THEN <<"'">> \o Head(pairs)[1] \o <<"'", ":", " ">> ELSE <<>>)
         \o PyRepr(Head(pairs)[2])
         \o (IF Len(pairs) > 1 THEN <<",", " ">> ELSE <<>>)
         \o PyReprItems(Tail(pairs), isObj)
PyRepr(v) ==
    CASE v.kind = "null" -> <<"N", "o", "n", "e">>
      [] v.kind = "bool" -> IF v.n = 1 THEN <<"T", "r", "u", "e">>
                            ELSE <<"F", "a", "l", "s", "e">>
      [] v.kind = "num" -> IntText(v.n)
      [] v.kind = "str" -> <<"'">> \o v.s \o <<"'">>
      [] v.kind = "arr" -> <<"[">> \o PyReprItems(v.o, FALSE) \o <<"]">>
      [] OTHER -> <<"{">> \o PyReprItems(v.o, TRUE) \o <<"}">>
\* str(v)
PyStr(v) == IF IsStr(v) THEN v.s ELSE PyRepr(v)

\* AgentRef.from_dict(data) succeeds: data["agent"] and data["org"] exist
AgentRefFromDictOk(data) == IsDict(data) /\ Has(data, K_agent) /\ Has(data, K_org)
\* AgentRef.from_dict(data)
AgentRef_from_dict(data) ==
    [agent |-> Get(data, K_agent), org |-> Get(data, K_org),
     key |-> GetOrNone(data, K_key), enc_key |-> GetOrNone(data, <<"e", "n", "c", "_", "k", "e", "y">>)]
\* AgentRef.to_dict()
AgentRef_to_dict(ref) ==
    JObj(<< <<K_agent, ref.agent>>, <<K_org, ref.org>> >>
         \o (IF Truthy(ref.key) THEN << <<K_key, ref.key>> >> ELSE <<>>)
         \o (IF Truthy(ref.enc_key)
             THEN << <<<<"e", "n", "c", "_", "k", "e", "y">>, ref.enc_key>> >> ELSE <<>>))

\* The id uuid.uuid4() gives a message built without one (one value stands
\* for the fresh id).
FreshUUID ==
    [i \in 1..36 |-> IF i \in {9, 14, 19, 24} THEN "-" ELSE IF i = 15 THEN "4" ELSE "a"]

\* Message.from_dict(data) succeeds: the keys it indexes exist, the operation
\* is a member of Operation, and both agent references parse.
MessageFromDictOk(data) ==
    /\ IsDict(data)
    /\ \A k \in {K_v, K_id, K_ts, K_op, K_from, K_to, K_p} : Has(data, k)
    /\ \E op \in Operations : Get(data, K_op) = JStr(op)
    /\ AgentRefFromDictOk(Get(data, K_from))
    /\ AgentRefFromDictOk(Get(data, K_to))

\* The exception Message.from_dict(data) raises, "" when it raises none: the
\* keyword arguments are evaluated in the order they are written.
AgentRef_from_dict_raises(data) ==
    IF ~IsDict(data) THEN "TypeError"
    ELSE IF ~Has(data, K_agent) \/ ~Has(data, K_org) THEN "KeyError"
    ELSE ""
Message_from_dict_raises(data) ==
    IF \E k \in {K_v, K_id, K_ts, K_op} : ~Has(data, k) THEN "KeyError"
    ELSE IF ~(\E op \in Operations : Get(data, K_op) = JStr(op)) THEN "ValueError"
    ELSE IF ~Has(data, K_from) THEN "KeyError"
    ELSE IF AgentRef_from_dict_raises(Get(data, K_from)) # ""
    THEN AgentRef_from_dict_raises(Get(data, K_from))
    ELSE IF ~Has(data, K_to) THEN "KeyError"
    ELSE IF AgentRef_from_dict_raises(Get(data, K_to)) # ""
    THEN AgentRef_from_dict_raises(Get(data, K_to))
    ELSE IF ~Has(data, K_p) THEN "KeyError"
    ELSE ""

\* Message.from_dict(data), with __post_init__ run when now() is `now`
Message_from_dict(data, now) ==
    [version |-> Get(data, K_v),
     message_id |-> IF Get(data, K_id) = JNull THEN JStr(FreshUUID) ELSE Get(data, K_id),
     timestamp |-> IF Get(data, K_ts) = JNull THEN JNum(now) ELSE Get(data, K_ts),
     operation |-> Get(data, K_op),
     sender |-> AgentRef_from_dict(Get(data, K_from)),
     recipient |-> AgentRef_from_dict(Get(data, K_to)),
     payload |-> Get(data, K_p),
     classification |-> IF Has(data, K_cls) THEN Get(data, K_cls) ELSE JStr(CLS_INTERNAL),
     signature |-> GetOrNone(data, K_sig),
     reply_to |-> GetOrNone(data, <<"r", "e">>),
     expires |-> GetOrNone(data, K_exp),
     capabilities_required |-> GetOrNone(data, <<"c", "a", "p">>),
     pii_meta |-> GetOrNone(data, K_pii_meta),
     extensions |-> GetOrNone(data, <<"e", "x", "t">>)]

\* Message.to_dict()
Message_to_dict(m) ==
    LET opt(k, v) == IF Truthy(v) THEN << <<k, v>> >> ELSE <<>>
    IN JObj(<< <<K_v, m.version>>, <<K_id, m.message_id>>, <<K_ts, m.timestamp>>,
               <<K_op, m.operation>>, <<K_from, AgentRef_to_dict(m.sender)>>,
               <<K_to, AgentRef_to_dict(m.recipient)>>, <<K_p, m.payload>>,
               <<K_cls, m.classification>> >>
            \o opt(K_sig, m.signature)
            \o opt(<<"r", "e">>, m.reply_to)
            \o opt(K_exp, m.expires)
            \o opt(<<"c", "a", "p">>, m.capabilities_required)
            \o opt(K_pii_meta, m.pii_meta)
            \o opt(<<"e", "x", "t">>, m.extensions))

\* A list of error strings plus how the call ended.
Returned(errors) == [raised |-> "", errors |-> errors]
Raised(exception) == [raised |-> exception, errors |-> <<>>]
NotCalled == [raised |-> "not called", errors |-> <<>>]

\* Message.validate(): a dataclass instance (sender, recipient) and a member
\* of Operation are always true.
Message_validate(m) ==
    LET add(cond, text) == IF cond THEN <<text>> ELSE <<>>
    IN Returned(
         add(~Truthy(m.message_id), "Message ID required")
         \o add(~Truthy(m.timestamp), "Timestamp required")
         \o add(~Truthy(m.operation), "Operation required")
         \o add(~(\E c \in Classifications : m.classification = JStr(c)),
                "Invalid classification: {classification}")
         \o add(m.classification = JStr(CLS_PII) /\ ~Truthy(m.pii_meta),
                "PII classification requires pii_meta"))

\* PIIDetector.PATTERNS, in the dictionary's order
\* \+?[1-9]\d{1,14}
DetectorPhone(text) ==
    Between(text, Step(text, Opt(text, AnyStart(text), {"+"}), DigitSet \ {"0"}),
            DigitSet, 1, 14) # {}
\* \d{3}-\d{2}-\d{4}
DetectorSSN(text) ==
    LET a == Step(text, Times(text, AnyStart(text), DigitSet, 3), {"-"})
        b == Step(text, Times(text, a, DigitSet, 2), {"-"})
    IN Times(text, b, DigitSet, 4) # {}
\* \d{4}[\s-]?\d{4}[\s-]?\d{4}[\s-]?\d{4}
DetectorCreditCard(text) ==
    LET grp(S) == Opt(text, Times(text, S, DigitSet, 4), {"-", " "})
    IN Times(text, grp(grp(grp(AnyStart(text)))), DigitSet, 4) # {}
\* \d{1,3}\.\d{1,3}\.\d{1,3}\.\d{1,3}
DetectorIP(text) ==
    LET grp(S) == Step(text, Between(text, S, DigitSet, 1, 3), {"."})
    IN Between(text, grp(grp(grp(AnyStart(text)))), DigitSet, 1, 3) # {}
\* \d{1,2}[/-]\d{1,2}[/-]\d{2,4}
DetectorDOB(text) ==
    LET grp(S) == Step(text, Between(text, S, DigitSet, 1, 2), {"/", "-"})
    IN Between(text, grp(grp(AnyStart(text))), DigitSet, 2, 4) # {}

\* PIIDetector.detect(text) finds something (the keys of its result, as a set)
\* PIIDetector.detect, were it to search for e-mail addresses only.
PIIDetector_detect_email_only(text) ==
    {name \in {"email"} : MatchEmail(text)}

PIIDetector_detect(text) ==
    {name \in {"email", "phone", "ssn", "credit_card", "ip_address", "date_of_birth"} :
        CASE name = "email" -> MatchEmail(text)
          [] name = "phone" -> DetectorPhone(text)
          [] name = "ssn" -> DetectorSSN(text)
          [] name = "credit_card" -> DetectorCreditCard(text)
          [] name = "ip_address" -> DetectorIP(text)
          [] OTHER -> DetectorDOB(text)}

CV_PII_DETECTED == "PII detected but classification is '{classification}': {types}"
CV_NO_META == "PII classification requires pii_meta with consent"
CV_NO_PROOF == "PII classification requires consent proof"
CV_CROSS_ORG == "SECRET classification cannot be transmitted across organizations"

\* ClassificationValidator.validate_message(message): .get on something that
\* is no dict raises AttributeError.
ClassificationValidator_validate_message(m) ==
    LET add(cond, text) == IF cond THEN <<text>> ELSE <<>>
        payload_str == PyStr(m.payload)
        isPii == m.classification = JStr(CLS_PII)
        consent == GetOrEmpty(m.pii_meta, K_consent)
    IN IF isPii /\ Truthy(m.pii_meta) /\ (~IsDict(m.pii_meta) \/ ~IsDict(consent))
       THEN Raised("AttributeError")
       ELSE Returned(
              add(~isPii /\ PIIDetector_detect(payload_str) # {}, CV_PII_DETECTED)
              \o add(isPii /\ ~Truthy(m.pii_meta), CV_NO_META)
              \o add(isPii /\ Truthy(m.pii_meta) /\ ~Truthy(GetOrNone(consent, K_proof)),
                     CV_NO_PROOF)
              \o add(m.classification = JStr(CLS_SECRET) /\ m.sender.org # m.recipient.org,
                     CV_CROSS_ORG))

-----------------------------------------------------------------------------
(* Validation: the messages handed to the validators, and the calls.       *)

\* Bounds of the validation runs.
T0 == 1000000        \* now() when the run starts, ms since the epoch
MaxTicks == 2        \* seconds the clock may advance
MaxDepth == 2        \* how many containers deep the payload's text may sit
OneSecond == 1 * 1000

Absent == [kind |-> "absent", s |-> <<>>, n |-> 0, o |-> <<>>]
\* {k: v, ...} written with only the keys that are given
MkDict(pairs) == JObj(SelectSeq(pairs, LAMBDA pr : pr[2] # Absent))

T_email == <<"a", "@", "b", ".", "c", "o">>
T_clean == <<"h", "i">>
T_token == <<"t", "o", "k">>

\* value, wrapped depth times, in turn in a dict and in a list
RECURSIVE Nest(_, _)
Nest(value, depth) ==
    IF depth = 0 THEN value
    ELSE IF depth % 2 = 1 THEN Nest(JObj(<< <<<<"u">>, value>> >>), depth - 1)
    ELSE Nest(JArr(<<value>>), depth - 1)

SomeText == {T_email, T_clean}
SomePayloads ==
    {Absent, JStr(T_email)}
    \cup {JObj(<< <<<<"q">>, Nest(JStr(t), d)>> >>) : t \in SomeText, d \in 0..MaxDepth}
SomeSenders ==
    {Absent,
     JObj(<< <<K_agent, JStr(<<"a">>)>>, <<K_org, JStr(<<"x">>)>> >>),
     JObj(<< <<K_agent, JStr(<<"a">>)>> >>)}
SomeRecipients ==
    {Absent,
     JObj(<< <<K_agent, JStr(<<"b">>)>>, <<K_org, JStr(<<"x">>)>> >>),
     JObj(<< <<K_agent, JStr(<<"b">>)>>, <<K_org, JStr(<<"y">>)>> >>)}
SomePiiMeta ==
    {Absent,
     JObj(<<>>),
     JObj(<< <<<<"t", "y", "p", "e", "s">>, JArr(<<>>)>> >>),
     JObj(<< <<K_consent, JObj(<< <<K_proof, JStr(<<>>)>> >>)>> >>),
     JObj(<< <<K_consent, JObj(<< <<K_proof, JStr(T_token)>> >>)>> >>)}
\* classification with the PII metadata sent along with it
SomeClassified ==
    {<<c, Absent>> : c \in {Absent, JStr(CLS_INTERNAL), JStr(CLS_SECRET),
                            JStr(<<"t", "o", "p">>)}}
    \cup {<<JStr(CLS_PII), meta>> : meta \in SomePiiMeta}
    \cup {<<JStr(CLS_INTERNAL), JObj(<< <<K_consent, JObj(<< <<K_proof, JStr(T_token)>> >>)>> >>)>>}
SomeTimestamps ==
    {JNum(T0), JNum(T0 - MAX_AGE_MS + OneSecond), JNum(T0 + MAX_AGE_MS), JNum(0 - 1),
     JStr(<<"n", "o", "w">>)}

\* A wire dictionary, keys in the order the builder and the factory
\* functions insert them (moltspeak.py:407-445, 556-563).
WireMessage(ts, cls, sender, recipient, payload, meta) ==
    MkDict(<< <<K_v, JStr(PROTOCOL_VERSION)>>, <<K_id, JStr(FreshUUID)>>,
              <<K_ts, ts>>, <<K_op, JStr(<<"q", "u", "e", "r", "y">>)>>,
              <<K_cls, cls>>, <<K_from, sender>>, <<K_to, recipient>>,
              <<K_p, payload>>, <<K_pii_meta, meta>> >>)

\* A fresh internal message whose payload is padded so that json.dumps of
\* the message is `size` bytes long.
SizedMessage(size) ==
    LET with(data) ==
            WireMessage(JNum(T0), JStr(CLS_INTERNAL), JObj(<< <<K_agent, JStr(<<"a">>)>> >>),
                        Absent, JObj(<< <<<<"d", "a", "t", "a">>, JStr(data)>> >>), Absent)
        short == byte_size(Dumps(with(<<FillerRun>>)))
    IN with(<<FillerRun>> \o [i \in 1..(size - short) |-> "~"])
SizedMessages ==
    {SizedMessage(SINGLE_MESSAGE + d) : d \in {0 - 1, 0, 1}}

\* A fresh message with every field a reader may ask for.
FullMessage ==
    WireMessage(JNum(T0), JStr(CLS_INTERNAL),
                JObj(<< <<K_agent, JStr(<<"a">>)>>, <<K_org, JStr(<<"x">>)>> >>),
                JObj(<< <<K_agent, JStr(<<"b">>)>>, <<K_org, JStr(<<"x">>)>> >>),
                JObj(<< <<<<"q">>, JStr(T_clean)>> >>), Absent)
\* Messages with required fields left out or set to null.
Incomplete ==
    {DictPop(FullMessage, k) : k \in {K_v, K_id, K_ts, K_op, K_from, K_cls, K_to, K_p}}
    \cup {DictSet(FullMessage, k, JNull) : k \in {K_v, K_id, K_ts, K_op, K_from, K_cls}}
    \cup {DictPop(DictPop(FullMessage, K_v), K_id),
          DictPop(DictSet(FullMessage, K_v, JNull), K_op),
          DictPop(DictPop(FullMessage, K_from), K_cls),
          JObj(<<>>)}
\* Messages whose operation is none of Operations.
UnknownOps ==
    {DictSet(FullMessage, K_op, JStr(<<"d", "a", "n", "c", "e">>)),
     DictPop(DictSet(FullMessage, K_op, JStr(<<"d", "a", "n", "c", "e">>)), K_to)}

\* Envelopes, whole and with parts missing or misdeclared.
SomeEnvelopeMeta ==
    {Absent, JObj(<<>>), JStr(<<"x">>),
     JObj(<< <<K_encrypted, JBool(FALSE)>> >>),
     JObj(<< <<K_compressed, JBool(FALSE)>> >>),
     JObj(<< <<K_encrypted, JBool(TRUE)>> >>),
     JObj(<< <<K_encrypted, JBool(TRUE)>>, <<K_algorithm, JStr(<<"x">>)>> >>)}
SomeEnvelopes ==
    {MkDict(<< <<K_moltspeak, version>>, <<K_envelope, meta>>,
               <<K_ciphertext, ciphertext>>, <<K_message, inner>> >>) :
        version \in {Absent, JStr(PROTOCOL_VERSION)},
        meta \in SomeEnvelopeMeta,
        ciphertext \in {Absent, JStr(<<"c">>)},
        inner \in {Absent, JObj(<< <<K_op, JStr(<<"t", "a", "s", "k">>)>> >>)}}

\* The longest agent name the protocol allows.
MAX_AGENT_NAME == 256
\* Messages whose sender's agent name is as long as allowed, one character
\* longer, or written with emoji.
NamedMessage(name) ==
    DictSet(FullMessage, K_from, JObj(<< <<K_agent, JStr(name)>>, <<K_org, JStr(<<"x">>)>> >>))
NamedMessages ==
    {NamedMessage([i \in 1..n |-> "x"]) : n \in {MAX_AGENT_NAME, MAX_AGENT_NAME + 1}}
    \cup {NamedMessage(<<Emoji, "-", "a", "g", "e", "n", "t", "-", Emoji>>)}

\* The inputs of validation: fresh messages of every classification, party
\* and payload; messages of every timestamp; messages around the size limit;
\* envelopes; incomplete messages and messages of unknown operation; and
\* something that is no dict.
WireMessages ==
    NamedMessages \cup SizedMessages \cup SomeEnvelopes \cup Incomplete \cup UnknownOps \cup {FullMessage} \cup
    {WireMessage(JNum(T0), cm[1], sender, recipient, payload, cm[2]) :
        cm \in SomeClassified, sender \in SomeSenders,
        recipient \in SomeRecipients, payload \in SomePayloads}
    \cup {WireMessage(ts, cm[1], JObj(<< <<K_agent, JStr(<<"a">>)>> >>), Absent,
                      payload, cm[2]) :
            ts \in SomeTimestamps, payload \in {Absent, JStr(T_email)},
            cm \in {<<JStr(CLS_INTERNAL), Absent>>, <<JStr(CLS_PII), Absent>>}}
    \cup {JStr(T_clean)}

\* How a call ends that was never made.
NoCall == [raised |-> "", says |-> "not called", value |-> JNull]

\* The codec variables of a run that encodes and wraps nothing.
CodecIdle ==
    /\ codec_api = "none"
    /\ original = JNull
    /\ held = JNull
    /\ wrap_flags = <<>>
    /\ unwraps = 0
    /\ unwrap_arg = JNull
    /\ unwrap_out = NoCall
    /\ wire = <<>>
    /\ wire_opts = <<FALSE, FALSE>>
    /\ decode_opts = <<TRUE, TRUE>>
    /\ decoded = NoCall

\* The builder variables of a run that builds nothing.
BuilderIdle ==
    /\ builder = JNull
    /\ build_validate = FALSE
    /\ built = NoCall

\* The masking variables of a run that masks nothing.
MaskingIdle ==
    /\ mask_api = "none"
    /\ mask_text = <<>>
    /\ mask_types = <<>>
    /\ mask_with = "*"
    /\ mask_calls = 0
    /\ masked = <<>>
    /\ remasked = <<>>

\* The session variables of a run that manages no sessions.
SessionIdle ==
    /\ sessions = <<>>
    /\ by_remote = <<>>
    /\ max_sessions = 0
    /\ default_ttl = 0
    /\ time_ms = 0
    /\ tokens = 0
    /\ session_call = [op |-> "none", session_id |-> 0, remote_agent |-> ""]
    /\ session_out = [session_id |-> 0, remote_agent |-> "", expires_at |-> 0,
                      last_activity |-> 0]
    /\ sessions_before = <<>>

\* The signing variables of a run that signs nothing.
SigningIdle ==
    /\ impl = "none"
    /\ NACL_AVAILABLE = FALSE
    /\ heap = <<>>
    /\ snapshot = <<>>
    /\ signed_of = <<>>
    /\ signed_with = <<>>
    /\ signed_as = <<>>
    /\ verify_ref = 0
    /\ verify_key = JNull
    /\ verify_out = "none"

InitValidation ==
    /\ message \in WireMessages
    /\ strict = TRUE
    /\ check_pii = TRUE
    /\ clock = T0
    /\ called = "none"
    /\ result = NewResult
    /\ cv_result = NotCalled
    /\ mv_result = NotCalled
    /\ SigningIdle
    /\ CodecIdle
    /\ BuilderIdle
    /\ MaskingIdle
    /\ SessionIdle

\* Time passes; what was validated earlier says nothing about now, and the
\* next call starts from a clean slate (each round makes one call).
Tick ==
    /\ clock < T0 + MaxTicks * OneSecond
    /\ clock' = clock + OneSecond
    /\ called' = "none"
    /\ result' = NewResult
    /\ cv_result' = NotCalled
    /\ mv_result' = NotCalled
    /\ UNCHANGED <<message, strict, check_pii>>
    /\ UNCHANGED <<signing_vars, codec_vars, builder_vars, masking_vars, session_vars>>

\* validate_message(message, strict=s, check_pii=c)
ValidateMessage ==
    /\ called = "none"
    /\ \E s \in BOOLEAN, c \in BOOLEAN :
          /\ strict' = s
          /\ check_pii' = c
          /\ result' = validate_message(message, s, c, clock)
    /\ called' = "validate_message"
    /\ cv_result' = NotCalled
    /\ mv_result' = NotCalled
    /\ UNCHANGED <<message, clock>>
    /\ UNCHANGED <<signing_vars, codec_vars, builder_vars, masking_vars, session_vars>>

\* Message.from_dict(message).validate()
MessageValidate ==
    /\ called = "none"
    /\ MessageFromDictOk(message)
    /\ mv_result' = Message_validate(Message_from_dict(message, clock))
    /\ called' = "Message.validate"
    /\ result' = NewResult
    /\ cv_result' = NotCalled
    /\ UNCHANGED <<message, strict, check_pii, clock>>
    /\ UNCHANGED <<signing_vars, codec_vars, builder_vars, masking_vars, session_vars>>

\* ClassificationValidator.validate_message(Message.from_dict(message))
ClassificationValidate ==
    /\ called = "none"
    /\ MessageFromDictOk(message)
    /\ cv_result' = ClassificationValidator_validate_message(
                        Message_from_dict(message, clock))
    /\ called' = "ClassificationValidator.validate_message"
    /\ result' = NewResult
    /\ mv_result' = NotCalled
    /\ UNCHANGED <<message, strict, check_pii, clock>>
    /\ UNCHANGED <<signing_vars, codec_vars, builder_vars, masking_vars, session_vars>>

\* Message.from_dict(message)
MessageFromDict ==
    /\ called = "none"
    /\ IsDict(message)
    /\ called' = "Message.from_dict"
    /\ mv_result' = IF Message_from_dict_raises(message) # ""
                    THEN Raised(Message_from_dict_raises(message))
                    ELSE Returned(<<>>)
    /\ result' = NewResult
    /\ cv_result' = NotCalled
    /\ UNCHANGED <<message, strict, check_pii, clock>>
    /\ UNCHANGED <<signing_vars, codec_vars, builder_vars, masking_vars, session_vars>>

\* validate_envelope(message)
ValidateEnvelope ==
    /\ called = "none"
    /\ IF validate_envelope_raises(message)
       THEN /\ called' = "validate_envelope raised AttributeError"
            /\ result' = NewResult
       ELSE /\ called' = "validate_envelope"
            /\ result' = validate_envelope(message)
    /\ cv_result' = NotCalled
    /\ mv_result' = NotCalled
    /\ UNCHANGED <<message, strict, check_pii, clock>>
    /\ UNCHANGED <<signing_vars, codec_vars, builder_vars, masking_vars, session_vars>>

NextValidation ==
    \/ Tick
    \/ ValidateMessage
    \/ MessageValidate
    \/ ClassificationValidate
    \/ ValidateEnvelope
    \/ MessageFromDict

SpecValidation == InitValidation /\ [][NextValidation]_vars

-----------------------------------------------------------------------------
(* Validation: the claims.                                                 *)

Classification(msg) == GetOrNone(msg, K_cls)
\* The consent proof a message carries: pii_meta.consent.proof, None when any
\* step of the path is missing.
ConsentProof(msg) ==
    GetOrNone(GetOrNone(GetOrNone(msg, K_pii_meta), K_consent), K_proof)
NoConsentProof(msg) == ~(IsStr(ConsentProof(msg)) /\ ConsentProof(msg).s # <<>>)
OrgOf(msg, party) == GetOrNone(GetOrNone(msg, party), K_org)
CrossOrg(msg) ==
    /\ IsStr(OrgOf(msg, K_from))
    /\ IsStr(OrgOf(msg, K_to))
    /\ OrgOf(msg, K_from) # OrgOf(msg, K_to)

\* The validator called last reported the message invalid: valid=false with
\* an error, or a non-empty list of violations.
ReportedInvalid ==
    CASE called = "validate_message" -> ~result.valid /\ result.errors # <<>>
      [] called = "Message.validate" -> mv_result.raised = "" /\ mv_result.errors # <<>>
      [] called = "ClassificationValidator.validate_message" ->
            cv_result.raised = "" /\ cv_result.errors # <<>>
      [] OTHER -> FALSE

\* C1: every validator reports a message classified pii as invalid when its
\* PII metadata is absent or its consent proof is missing or empty.
C1_PiiRequiresConsentProof ==
    (/\ called \in {"validate_message", "Message.validate",
                    "ClassificationValidator.validate_message"}
     /\ IsDict(message)
     /\ Classification(message) = JStr(CLS_PII)
     /\ NoConsentProof(message))
    => ReportedInvalid

\* C2: validate_message and ClassificationValidator.validate_message report a
\* message classified sec as invalid when the sender's organization differs
\* from the recipient's.
C2_SecretStaysInOrg ==
    (/\ called \in {"validate_message", "ClassificationValidator.validate_message"}
     /\ IsDict(message)
     /\ Classification(message) = JStr(CLS_SECRET)
     /\ CrossOrg(message))
    => ReportedInvalid

\* Some string, number or key of the data, at any depth, matches a PII
\* pattern when scanned on its own.
RECURSIVE HasPIILeaf(_)
HasPIILeaf(v) ==
    CASE v.kind = "str" -> \E i \in 1..Len(PII_TYPES) : PII_PATTERNS(i, v.s)
      [] v.kind = "num" -> \E i \in 1..Len(PII_TYPES) : PII_PATTERNS(i, IntText(v.n))
      [] v.kind \in {"obj", "arr"} ->
            \E j \in 1..Len(v.o) :
                \/ HasPIILeaf(v.o[j][2])
                \/ \E i \in 1..Len(PII_TYPES) : PII_PATTERNS(i, v.o[j][1])
      [] OTHER -> FALSE

\* C3: with check_pii on, validate_message reports as invalid, with the error
\* that says to set cls to 'pii' with consent metadata, every message that is
\* not classified pii and whose payload holds a PII pattern at any depth.
C3_UndeclaredPiiRejected ==
    (/\ called = "validate_message"
     /\ check_pii
     /\ IsDict(message)
     /\ Classification(message) # JStr(CLS_PII)
     /\ HasPIILeaf(GetOrEmpty(message, K_p)))
    => (~result.valid /\ HasError(result, E_PII))

\* An internal message whose only fault is an email address nested as deep as
\* the model goes was rejected for it.
C3_Witness ==
    /\ called = "validate_message"
    /\ check_pii
    /\ ~strict
    /\ IsDict(message)
    /\ Classification(message) = JStr(CLS_INTERNAL)
    /\ GetOrEmpty(message, K_p) = JObj(<< <<<<"q">>, Nest(JStr(T_email), MaxDepth)>> >>)
    /\ ~result.valid
    /\ Len(result.errors) = 1
    /\ HasError(result, E_PII)

\* The age of the message when it was validated.
AgeAtValidation == clock - Get(message, K_ts).n
FourMinutes59 == (4 * 60 + 59) * 1000
FiveMinutes01 == (5 * 60 + 1) * 1000
HasValidTimestamp(msg) ==
    IsDict(msg) /\ Has(msg, K_ts) /\ IsNumber(Get(msg, K_ts)) /\ Get(msg, K_ts).n >= 0

\* C10: a message 4m59s old passes validate_message's replay check; one 5m01s
\* old is reported invalid with the replay error.
C10_ReplayWindowBoundary ==
    (called = "validate_message" /\ HasValidTimestamp(message))
    => /\ AgeAtValidation = FourMinutes59 => ~HasError(result, E_REPLAY)
       /\ AgeAtValidation = FiveMinutes01 =>
             (~result.valid /\ HasError(result, E_REPLAY))

\* A message 5m01s old whose only fault is its age was rejected as a replay.
C10_Witness ==
    /\ called = "validate_message"
    /\ HasValidTimestamp(message)
    /\ AgeAtValidation = FiveMinutes01
    /\ ~result.valid
    /\ Len(result.errors) = 1
    /\ HasError(result, E_REPLAY)

-----------------------------------------------------------------------------
(* Cryptography (moltspeak/crypto.py). The digest and the Ed25519          *)
(* primitives are idealised as terms that name their inputs: no two inputs *)
(* share a digest, and a signature names the seed and the bytes it signs.  *)

\* hashlib.sha256(data).digest()
sha256(data) == <<"H", "(">> \o data \o <<")">>
\* SigningKey(seed).verify_key
VerifyKeyOf(seed) == <<"P", "(">> \o seed \o <<")">>
\* SigningKey(seed).sign(data).signature
Ed25519Sign(seed, data) == <<"S", "(">> \o seed \o <<"|">> \o data \o <<")">>

\* The outcomes of secrets.token_bytes(32) the runs draw keys from.
Seeds == {<<"s", "1">>, <<"s", "2">>}
\* The byte strings whose base64 text the runs handle.
KnownBytes ==
    Seeds \cup {sha256(seed) : seed \in Seeds}
          \cup {VerifyKeyOf(seed) : seed \in Seeds} \cup {<<>>}
\* base64.b64decode(text)
b64decode(text) == CHOOSE raw \in KnownBytes : b64encode(raw) = text

\* generate_keypair(), when token_bytes / SigningKey.generate() draws seed
generate_keypair(seed, nacl) ==
    IF nacl
    THEN [private |-> b64encode(seed), public |-> b64encode(VerifyKeyOf(seed))]
    ELSE LET private == b64encode(seed)
         IN [private |-> private, public |-> b64encode(sha256(b64decode(private)))]

\* sign_message(message, private_key_b64)
sign_message(text, private_key_b64, nacl) ==
    IF nacl
    THEN b64encode(Ed25519Sign(b64decode(private_key_b64), text))
    ELSE b64encode(sha256(text \o b64decode(private_key_b64)))

\* _public_to_fake_private(public_key_b64)
public_to_fake_private(public_key_b64) == public_key_b64

\* verify_signature(message, signature_b64, public_key_b64): with PyNaCl every
\* exception (a key of the wrong length, a bad signature) becomes False.
verify_signature(text, signature_b64, public_key_b64, nacl) ==
    IF nacl
    THEN \E seed \in Seeds :
            /\ b64decode(public_key_b64) = VerifyKeyOf(seed)
            /\ signature_b64 = b64encode(Ed25519Sign(seed, text))
    ELSE signature_b64 = sign_message(text, public_to_fake_private(public_key_b64), FALSE)

-----------------------------------------------------------------------------
(* Signing and verifying: sign / verify of the single-file SDK and         *)
(* Agent.sign / Agent.verify of the package.                               *)

SigPrefix == <<"e", "d", "2", "5", "5", "1", "9", ":">>

RECURSIVE JoinBar(_)
\* "|".join(parts)
JoinBar(parts) ==
    IF parts = <<>> THEN <<>>
    ELSE IF Len(parts) = 1 THEN parts[1]
    ELSE parts[1] \o <<"|">> \o JoinBar(Tail(parts))

\* The string sign() signs: the values of the top-level keys other than sig,
\* in sorted key order, each through json.dumps, joined by "|".
sign_payload(msg_copy) ==
    LET sorted_keys == SortPairs(SelectSeq(msg_copy.o, LAMBDA pr : pr[1] # K_sig))
    IN JoinBar([i \in 1..Len(sorted_keys) |-> Dumps(sorted_keys[i][2])])

\* sign(message, private_key): the signed copy; the caller raises ValueError
\* instead when private_key is falsy.
sign(msg, private_key) ==
    LET msg_copy == deep_clone(msg)
        mock_sig == Take(b64encode(sign_payload(msg_copy)), 64)
    IN DictSet(msg_copy, K_sig, JStr(SigPrefix \o mock_sig))

\* A verifier that asks for the key before it looks for a signature.
verify_key_first(msg, public_key) ==
    IF ~Truthy(public_key) THEN "ValueError"
    ELSE IF ~Has(msg, K_sig) THEN "False"
    ELSE IF StartsWith(Get(msg, K_sig).s, SigPrefix) /\ Len(Get(msg, K_sig).s) > 16
    THEN "True" ELSE "False"

\* verify(message, public_key): "True", "False", or the exception raised
verify(msg, public_key) ==
    IF ~Has(msg, K_sig) THEN "False"
    ELSE IF ~Truthy(public_key) THEN "ValueError"
    ELSE IF StartsWith(Get(msg, K_sig).s, SigPrefix) /\ Len(Get(msg, K_sig).s) > 16
    THEN "True" ELSE "False"

\* The canonical JSON Agent.sign and Agent.verify work on.
Agent_canonical(m) ==
    DumpsWith(DictPop(Message_to_dict(m), K_sig), TRUE, <<",">>, <<":">>)

\* Agent(identity).sign(message): the message object after the call, which is
\* also the object the call returns.
Agent_sign(m, identity, nacl) ==
    [m EXCEPT !.signature =
        JStr(SigPrefix \o sign_message(Agent_canonical(m), identity.private, nacl))]

StripPrefix(text) ==
    IF StartsWith(text, SigPrefix) THEN SubSeq(text, Len(SigPrefix) + 1, Len(text))
    ELSE text

\* Agent.verify(message, sender_public_key): "True", "False", or the
\* exception raised (None has no startswith).
Agent_verify(m, sender_public_key, nacl) ==
    IF ~Truthy(m.signature) THEN "False"
    ELSE IF ~IsStr(sender_public_key) THEN "AttributeError"
    ELSE IF verify_signature(Agent_canonical(m), StripPrefix(m.signature.s),
                             StripPrefix(sender_public_key.s), nacl)
    THEN "True" ELSE "False"

-----------------------------------------------------------------------------
(* Signing: the callers' messages, and the calls.                          *)

\* The validation variables of a run that validates nothing.
ValidationIdle ==
    /\ message = JNull
    /\ strict = FALSE
    /\ check_pii = FALSE
    /\ clock = T0
    /\ called = "none"
    /\ result = NewResult
    /\ cv_result = NotCalled
    /\ mv_result = NotCalled

\* The same dict with its keys inserted in the opposite order.
ReverseKeys(d) == JObj([i \in 1..Len(d.o) |-> d.o[Len(d.o) + 1 - i]])

SomePayload ==
    JObj(<< <<<<"k">>, JStr(T_clean)>>, <<<<"n">>, JNum(1)>> >>)
\* The message a caller builds and hands to sign.
CallerMessage ==
    WireMessage(JNum(T0), JStr(CLS_INTERNAL),
                JObj(<< <<K_agent, JStr(<<"a">>)>>, <<K_org, JStr(<<"x">>)>> >>),
                JObj(<< <<K_agent, JStr(<<"b">>)>>, <<K_org, JStr(<<"x">>)>> >>),
                SomePayload, Absent)
\* The same message built by another caller, who inserted the keys of the
\* message, of its sender or of its payload in another order.
Twins ==
    {ReverseKeys(CallerMessage),
     DictSet(CallerMessage, K_from, ReverseKeys(Get(CallerMessage, K_from))),
     DictSet(CallerMessage, K_p, ReverseKeys(Get(CallerMessage, K_p)))}

\* Same fields and values at every nesting level, whatever the key order.
RECURSIVE StructEq(_, _)
StructEq(a, b) ==
    /\ a.kind = b.kind
    /\ a.s = b.s
    /\ a.n = b.n
    /\ Len(a.o) = Len(b.o)
    /\ IF a.kind = "obj"
       THEN \A i \in 1..Len(a.o) :
               /\ Has(b, a.o[i][1])
               /\ StructEq(a.o[i][2], Get(b, a.o[i][1]))
       ELSE \A i \in 1..Len(a.o) : StructEq(a.o[i][2], b.o[i][2])

\* What a caller may pass as a key: None, "", and the keys of both pairs.
KeyTexts(nacl) ==
    UNION {{generate_keypair(seed, nacl).private, generate_keypair(seed, nacl).public} :
              seed \in Seeds}
SomeKeys(nacl) == {JNull, JStr(<<>>)} \cup {JStr(k) : k \in KeyTexts(nacl)}
                  \cup {JStr(SigPrefix \o generate_keypair(seed, nacl).public) : seed \in Seeds}

NoVerify ==
    /\ verify_ref' = 0
    /\ verify_key' = JNull
    /\ verify_out' = "none"

InitSigning ==
    /\ ValidationIdle
    /\ CodecIdle
    /\ BuilderIdle
    /\ MaskingIdle
    /\ SessionIdle
    /\ impl \in {"sdk", "agent"}
    /\ NACL_AVAILABLE \in (IF impl = "sdk" THEN {FALSE} ELSE BOOLEAN)
    /\ \E twin \in Twins :
          heap = IF impl = "sdk" THEN <<CallerMessage, twin>>
                 ELSE <<Message_from_dict(CallerMessage, T0), Message_from_dict(twin, T0)>>
    /\ snapshot = heap
    /\ signed_of = <<0, 0>>
    /\ signed_with = <<JNull, JNull>>
    /\ signed_as = <<JNull, JNull>>
    /\ verify_ref = 0
    /\ verify_key = JNull
    /\ verify_out = "none"

\* sign(heap[r], private_key), or Agent(identity).sign(heap[r]). signed_of[r]
\* becomes the reference the call returned, -1 when it raised.
Sign ==
    \E r \in 1..Len(snapshot) :
       /\ signed_of[r] = 0
       /\ \/ /\ impl = "sdk"
             /\ \E private_key \in {JNull, JStr(<<>>)}
                                  \cup {JStr(generate_keypair(seed, FALSE).private) : seed \in Seeds} :
                   /\ signed_with' = [signed_with EXCEPT ![r] = private_key]
                   /\ IF ~Truthy(private_key)
                      THEN /\ signed_of' = [signed_of EXCEPT ![r] = 0 - 1]
                           /\ UNCHANGED <<heap, signed_as>>
                      ELSE /\ heap' = Append(heap, sign(heap[r], private_key))
                           /\ signed_of' = [signed_of EXCEPT ![r] = Len(heap) + 1]
                           /\ signed_as' = [signed_as EXCEPT ![r] = sign(heap[r], private_key)]
          \/ /\ impl = "agent"
             /\ \E seed \in Seeds :
                   LET identity == generate_keypair(seed, NACL_AVAILABLE)
                       signed == Agent_sign(heap[r], identity, NACL_AVAILABLE)
                   IN /\ heap' = [heap EXCEPT ![r] = signed]
                      /\ signed_of' = [signed_of EXCEPT ![r] = r]
                      /\ signed_with' = [signed_with EXCEPT ![r] = JStr(identity.private)]
                      /\ signed_as' = [signed_as EXCEPT ![r] = signed]
       /\ NoVerify
       /\ UNCHANGED <<impl, NACL_AVAILABLE, snapshot>>
       /\ UNCHANGED <<validation_vars, codec_vars, builder_vars, masking_vars, session_vars>>

\* The payload with one of its fields changed.
Tampered(payload, field) ==
    DictSet(payload, field,
            IF IsStr(Get(payload, field)) THEN JStr(Get(payload, field).s \o <<"o">>)
            ELSE JNum(Get(payload, field).n + 1))

\* Someone changes a payload field of a signed message and keeps its sig.
Tamper ==
    \E r \in 1..Len(snapshot) :
       /\ signed_of[r] > 0
       /\ heap[signed_of[r]] = signed_as[r]
       /\ \E field \in {<<"k">>, <<"n">>} :
             LET m == heap[signed_of[r]]
             IN heap' = [heap EXCEPT ![signed_of[r]] =
                            IF impl = "sdk"
                            THEN DictSet(m, K_p, Tampered(Get(m, K_p), field))
                            ELSE [m EXCEPT !.payload = Tampered(m.payload, field)]]
       /\ NoVerify
       /\ UNCHANGED <<impl, NACL_AVAILABLE, snapshot, signed_of, signed_with, signed_as>>
       /\ UNCHANGED <<validation_vars, codec_vars, builder_vars, masking_vars, session_vars>>

\* verify(heap[ref], key), or Agent.verify(heap[ref], key)
Verify ==
    \E ref \in 1..Len(heap), key \in SomeKeys(NACL_AVAILABLE) :
       /\ verify_out = "none"
       /\ verify_ref' = ref
       /\ verify_key' = key
       /\ verify_out' = IF impl = "sdk" THEN verify(heap[ref], key)
                        ELSE Agent_verify(heap[ref], key, NACL_AVAILABLE)
       /\ UNCHANGED <<impl, NACL_AVAILABLE, heap, snapshot, signed_of, signed_with, signed_as>>
       /\ UNCHANGED <<validation_vars, codec_vars, builder_vars, masking_vars, session_vars>>

NextSigning ==
    \/ Sign
    \/ Tamper
    \/ Verify

SpecSigning == InitSigning /\ [][NextSigning]_vars

-----------------------------------------------------------------------------
(* Signing: the claims.                                                    *)

\* The object carries a signature.
HasSig(obj) == IF impl = "sdk" THEN Has(obj, K_sig) ELSE Truthy(obj.signature)
SignatureOf(obj) == IF impl = "sdk" THEN GetOrNone(obj, K_sig) ELSE obj.signature
\* What sign and verify see of the object besides its signature.
ContentOf(obj) ==
    IF impl = "sdk" THEN DictPop(obj, K_sig) ELSE DictPop(Message_to_dict(obj), K_sig)
\* The bytes the implementation signs for the object.
CanonicalOf(obj) == IF impl = "sdk" THEN sign_payload(obj) ELSE Agent_canonical(obj)

Verified == verify_out # "none"
\* The keys of the pair drawn from seed, as a caller may pass them.
KeysOf(seed) ==
    LET pair == generate_keypair(seed, NACL_AVAILABLE)
    IN {JStr(pair.private), JStr(pair.public), JStr(SigPrefix \o pair.public)}
\* The last verify was given the signed message of caller r, with its
\* signature kept and its content changed or not.
VerifiedSignedOf(r, changed) ==
    /\ Verified
    /\ signed_of[r] = verify_ref
    /\ SignatureOf(heap[verify_ref]) = SignatureOf(signed_as[r])
    /\ (ContentOf(heap[verify_ref]) # ContentOf(signed_as[r])) = changed

\* C4: once a message is signed with a key, a change to any payload field
\* that keeps the signature makes verification against that key return false.
C4_TamperDetected ==
    \A r \in 1..Len(snapshot), seed \in Seeds :
        (/\ VerifiedSignedOf(r, TRUE)
         /\ signed_with[r] \in KeysOf(seed)
         /\ verify_key \in KeysOf(seed))
        => verify_out = "False"

\* C5: a message signed with one key never verifies under a different key:
\* verification returns false.
C5_WrongKeyRejected ==
    \A r \in 1..Len(snapshot), k1 \in Seeds, k2 \in Seeds :
        (/\ VerifiedSignedOf(r, FALSE)
         /\ k1 # k2
         /\ signed_with[r] \in KeysOf(k1)
         /\ verify_key \in KeysOf(k2))
        => verify_out = "False"

\* C6: verifying a message without a signature returns false and raises
\* nothing, whatever is passed as the public key, an empty or missing key
\* included.
C6_UnsignedVerifiesFalse ==
    (Verified /\ ~HasSig(heap[verify_ref])) => verify_out = "False"

\* verify was handed an unsigned message and an empty key, and returned false.
C6_Witness ==
    /\ impl = "sdk"
    /\ Verified
    /\ ~HasSig(heap[verify_ref])
    /\ verify_key = JStr(<<>>)
    /\ verify_out = "False"

\* C7: verifying a signed message with an empty or missing public key raises;
\* it does not return false (or true).
C7_MissingKeyRaises ==
    (/\ Verified
     /\ HasSig(heap[verify_ref])
     /\ verify_key \in {JNull, JStr(<<>>)})
    => verify_out \notin {"True", "False"}

\* C8: after sign returns, the caller's message is unchanged, has gained no
\* signature, and the signed result is another object.
C8_SignLeavesOriginal ==
    \A r \in 1..Len(snapshot) :
        signed_of[r] > 0 =>
            /\ signed_of[r] # r
            /\ heap[r] = snapshot[r]
            /\ ~HasSig(heap[r])

\* Structural equality of two callers' messages.
SameMessage(a, b) ==
    IF impl = "sdk" THEN StructEq(a, b)
    ELSE StructEq(Message_to_dict(a), Message_to_dict(b))

\* C9: two structurally equal messages built with different key insertion
\* order canonicalize to the same bytes and, signed with the same key, get
\* the same signature.
C9_InsertionOrderIrrelevant ==
    (/\ signed_of[1] > 0
     /\ signed_of[2] > 0
     /\ signed_with[1] = signed_with[2]
     /\ SameMessage(snapshot[1], snapshot[2]))
    => /\ CanonicalOf(snapshot[1]) = CanonicalOf(snapshot[2])
       /\ SignatureOf(signed_as[1]) = SignatureOf(signed_as[2])

-----------------------------------------------------------------------------
(* Validation: the claims on size, results, required fields, operations.   *)

\* The bytes of the message as validate_message serializes it.
SerializedSize(msg) == byte_size(Dumps(msg))

\* C11: a message that serializes to exactly the single-message limit passes
\* validate_message's size check, and one a byte larger is reported invalid
\* with the size error.
C11_SizeLimitBoundary ==
    (called = "validate_message" /\ IsDict(message))
    => /\ SerializedSize(message) = 1024 * 1024 => ~HasError(result, E_SIZE)
       /\ SerializedSize(message) = 1024 * 1024 + 1 =>
             (~result.valid /\ HasError(result, E_SIZE))

\* A message one byte over the limit, with no other fault, was rejected for
\* its size.
C11_Witness ==
    /\ called = "validate_message"
    /\ IsDict(message)
    /\ SerializedSize(message) = 1024 * 1024 + 1
    /\ ~result.valid
    /\ Len(result.errors) = 1
    /\ HasError(result, E_SIZE)

\* C12: in every ValidationResult that validate_message or validate_envelope
\* returns, valid is false exactly when the list of errors is not empty; a
\* result with warnings and no errors is valid.
C12_ValidIffNoErrors ==
    called \in {"validate_message", "validate_envelope"}
    => (~result.valid <=> result.errors # <<>>)

\* A result came back with a warning, no error, and valid.
C12_Witness ==
    /\ called = "validate_message"
    /\ result.warnings # <<>>
    /\ result.errors = <<>>
    /\ result.valid

\* How many missing-field errors the result holds for the field.
MissingErrors(r, field) ==
    Cardinality({i \in 1..Len(r.errors) :
                    r.errors[i].text = E_MISSING /\ r.errors[i].arg = field})
\* The field is absent from the message, or null.
MissingOrNull(msg, field) == ~Has(msg, field) \/ Get(msg, field) = JNull

UnknownOperation(msg) ==
    /\ IsDict(msg)
    /\ Has(msg, K_op)
    /\ IsStr(Get(msg, K_op))
    /\ Get(msg, K_op).s \notin Operations
\* The same message with an operation everyone knows.
WithKnownOperation(msg) == DictSet(msg, K_op, JStr(<<"q", "u", "e", "r", "y">>))

\* C14: a message of unknown operation is never rejected for it:
\* validate_message adds a warning and leaves valid and the errors as they
\* are for a known operation, and Message.from_dict reads the message
\* whenever it reads the same message with a known operation.
C14_UnknownOperationTolerated ==
    UnknownOperation(message)
    => /\ called = "validate_message" =>
             LET known == validate_message(WithKnownOperation(message), strict,
                                           check_pii, clock)
             IN /\ HasWarning(result, W_OPERATION)
                /\ result.valid = known.valid
                /\ result.errors = known.errors
       /\ (called = "Message.from_dict"
           /\ Message_from_dict_raises(WithKnownOperation(message)) = "")
          => mv_result.raised = ""

-----------------------------------------------------------------------------
(* Encoding and decoding: encode / decode of the single-file SDK and       *)
(* Message.to_json / Message.from_json of the package.                     *)

\* encode(message, pretty, envelope)
encode(msg, pretty, envelope) ==
    LET data == IF envelope THEN wrap_in_envelope(msg, FALSE) ELSE msg
    IN IF pretty THEN DumpsIndent(data, 0) ELSE Dumps(data)

DE_JSON == "Invalid JSON: {e}"
DE_MESSAGE == "Invalid message: {errors}"

\* decode(json_str, validate, should_unwrap), called when now() is `now`, for
\* a text that holds a dict or is no JSON at all
decode(json_str, validate, should_unwrap, now) ==
    LET parsed == json_loads(json_str)
        data == parsed.v
        is_envelope == Has(data, K_moltspeak) /\ Has(data, K_envelope)
        unwrapped == IF is_envelope THEN unwrap_envelope(data) ELSE Return(data)
    IN IF ~parsed.ok THEN Raise("ValueError", DE_JSON)
       ELSE IF is_envelope /\ ~should_unwrap THEN Return(data)
       ELSE IF unwrapped.raised # "" THEN unwrapped
       ELSE IF validate /\ ~validate_message(unwrapped.value, FALSE, FALSE, now).valid
       THEN Raise("ValueError", DE_MESSAGE)
       ELSE unwrapped

\* Message.to_json(indent), indent being None or 2
Message_to_json(m, indented) ==
    IF indented THEN DumpsIndent(Message_to_dict(m), 0) ELSE Dumps(Message_to_dict(m))

\* Message.from_json(json_str), called when now() is `now`
Message_from_json(json_str, now) ==
    LET parsed == json_loads(json_str)
    IN IF ~parsed.ok THEN Raise("JSONDecodeError", "")
       ELSE IF ~IsDict(parsed.v) THEN Raise("TypeError", "")
       ELSE IF Message_from_dict_raises(parsed.v) # ""
       THEN Raise(Message_from_dict_raises(parsed.v), "")
       ELSE Return(Message_from_dict(parsed.v, now))

-----------------------------------------------------------------------------
(* Codec: the messages and envelopes handed in, and the calls.             *)

MaxWraps == 2

\* A valid message that also carries the two keys decode takes for the marks
\* of an envelope.
MarkedMessage ==
    DictSet(DictSet(FullMessage, K_moltspeak, JStr(PROTOCOL_VERSION)), K_envelope, JObj(<<>>))
\* A message whose payload holds every kind of JSON value.
MixedMessage ==
    DictSet(FullMessage, K_p,
            JObj(<< <<<<"a">>, JArr(<<JNum(0 - 12), JBool(TRUE), JBool(FALSE), JNull,
                                      JArr(<<>>), JObj(<<>>)>>)>>,
                    <<<<"b">>, Nest(JStr(T_clean), MaxDepth)>>,
                    <<<<>>, JStr(<<>>)>> >>))
CodecDicts ==
    {FullMessage, MarkedMessage, MixedMessage, JObj(<<>>)}
    \cup UnknownOps \cup Incomplete \cup SomeEnvelopes

\* Messages of the package, as a caller constructs them; some pass an empty
\* list or dict, a zero or an empty string for an optional field.
PackageMessages ==
    LET m == Message_from_dict(FullMessage, T0)
    IN {m,
        [m EXCEPT !.capabilities_required = JArr(<<>>)],
        [m EXCEPT !.capabilities_required = JArr(<<JStr(<<"x">>)>>)],
        [m EXCEPT !.extensions = JObj(<<>>)],
        [m EXCEPT !.extensions = JObj(<< <<<<"k">>, JNum(1)>> >>)],
        [m EXCEPT !.expires = JNum(0)],
        [m EXCEPT !.expires = JNum(T0 + OneSecond)],
        [m EXCEPT !.reply_to = JStr(<<>>)],
        [m EXCEPT !.sender.key = JStr(<<>>)],
        [m EXCEPT !.sender.key = JStr(<<"k">>)],
        [m EXCEPT !.classification = JStr(<<"b", "o", "g", "u", "s">>)]}

InitCodec ==
    /\ ValidationIdle
    /\ SigningIdle
    /\ BuilderIdle
    /\ MaskingIdle
    /\ SessionIdle
    /\ codec_api \in {"sdk", "package"}
    /\ original \in (IF codec_api = "sdk" THEN CodecDicts ELSE PackageMessages)
    /\ held = (IF codec_api = "sdk" THEN original ELSE JNull)
    /\ wrap_flags = <<>>
    /\ unwraps = 0
    /\ unwrap_arg = JNull
    /\ unwrap_out = NoCall
    /\ wire = <<>>
    /\ wire_opts = <<FALSE, FALSE>>
    /\ decode_opts = <<TRUE, TRUE>>
    /\ decoded = NoCall

\* A run either wraps and unwraps or encodes and decodes.
\* wrap_in_envelope(held, compressed), the caller keeping the envelope
Wrap ==
    /\ codec_api = "sdk"
    /\ wire = <<>>
    /\ Len(wrap_flags) < MaxWraps
    /\ unwraps = 0
    /\ \E compressed \in BOOLEAN :
          /\ held' = wrap_in_envelope(held, compressed)
          /\ wrap_flags' = Append(wrap_flags, compressed)
    /\ UNCHANGED <<codec_api, original, unwraps, unwrap_arg, unwrap_out, wire, wire_opts,
                   decode_opts, decoded>>
    /\ UNCHANGED <<validation_vars, signing_vars, builder_vars, masking_vars, session_vars>>

\* unwrap_envelope(held), the caller keeping what it returns
Unwrap ==
    /\ codec_api = "sdk"
    /\ wire = <<>>
    /\ LET out == unwrap_envelope(held)
       IN /\ unwrap_arg' = held
          /\ unwrap_out' = out
          /\ held' = IF out.raised = "" THEN out.value ELSE held
          /\ unwraps' = IF out.raised = "" THEN unwraps + 1 ELSE unwraps
    /\ UNCHANGED <<codec_api, original, wrap_flags, wire, wire_opts, decode_opts, decoded>>
    /\ UNCHANGED <<validation_vars, signing_vars, builder_vars, masking_vars, session_vars>>

\* encode(original, pretty, envelope)
Encode ==
    /\ codec_api = "sdk"
    /\ wrap_flags = <<>> /\ unwrap_out = NoCall
    /\ \E pretty \in BOOLEAN, envelope \in BOOLEAN :
          /\ wire' = encode(original, pretty, envelope)
          /\ wire_opts' = <<pretty, envelope>>
    /\ decoded' = NoCall
    /\ UNCHANGED <<codec_api, original, held, wrap_flags, unwraps, unwrap_arg, unwrap_out,
                   decode_opts>>
    /\ UNCHANGED <<validation_vars, signing_vars, builder_vars, masking_vars, session_vars>>

\* The text arrives cut short, by one character.
Truncate ==
    /\ wire # <<>>
    /\ decoded = NoCall
    /\ wire = (IF codec_api = "sdk" THEN encode(original, wire_opts[1], wire_opts[2])
               ELSE Message_to_json(original, wire_opts[1]))
    /\ wire' = SubSeq(wire, 1, Len(wire) - 1)
    /\ UNCHANGED <<codec_api, original, held, wrap_flags, unwraps, unwrap_arg, unwrap_out,
                   wire_opts, decode_opts, decoded>>
    /\ UNCHANGED <<validation_vars, signing_vars, builder_vars, masking_vars, session_vars>>

\* decode(wire, validate, should_unwrap)
Decode ==
    /\ codec_api = "sdk"
    /\ wire # <<>>
    /\ \E validate \in BOOLEAN, should_unwrap \in BOOLEAN :
          /\ decoded' = decode(wire, validate, should_unwrap, clock)
          /\ decode_opts' = <<validate, should_unwrap>>
    /\ UNCHANGED <<codec_api, original, held, wrap_flags, unwraps, unwrap_arg, unwrap_out,
                   wire, wire_opts>>
    /\ UNCHANGED <<validation_vars, signing_vars, builder_vars, masking_vars, session_vars>>

\* original.to_json(indent)
ToJson ==
    /\ codec_api = "package"
    /\ \E indented \in BOOLEAN :
          /\ wire' = Message_to_json(original, indented)
          /\ wire_opts' = <<indented, FALSE>>
    /\ decoded' = NoCall
    /\ UNCHANGED <<codec_api, original, held, wrap_flags, unwraps, unwrap_arg, unwrap_out,
                   decode_opts>>
    /\ UNCHANGED <<validation_vars, signing_vars, builder_vars, masking_vars, session_vars>>

\* Message.from_json(wire)
FromJson ==
    /\ codec_api = "package"
    /\ wire # <<>>
    /\ decoded' = Message_from_json(wire, clock)
    /\ UNCHANGED <<codec_api, original, held, wrap_flags, unwraps, unwrap_arg, unwrap_out,
                   wire, wire_opts, decode_opts>>
    /\ UNCHANGED <<validation_vars, signing_vars, builder_vars, masking_vars, session_vars>>

NextCodec ==
    \/ Wrap
    \/ Unwrap
    \/ Encode
    \/ Truncate
    \/ Decode
    \/ ToJson
    \/ FromJson

SpecCodec == InitCodec /\ [][NextCodec]_vars

-----------------------------------------------------------------------------
(* Codec: the claims on round trips and envelopes.                         *)

\* The wire text is what encode / to_json made of the original, untouched.
WireOfOriginal ==
    wire = IF codec_api = "sdk" THEN encode(original, wire_opts[1], wire_opts[2])
           ELSE Message_to_json(original, wire_opts[1])
\* The original is a valid message: validate_message in its strictest
\* setting, Message.validate for the package.
ValidOriginal ==
    IF codec_api = "sdk" THEN validate_message(original, TRUE, TRUE, clock).valid
    ELSE Message_validate(original) = Returned(<<>>)

\* C15: for any valid message m, decode(encode(m)) returns a message equal to
\* m field for field, with envelope wrapping on or off and pretty-printing
\* on or off (decode and from_json called as their defaults have it).
C15_RoundTrip ==
    (decoded # NoCall /\ decode_opts = <<TRUE, TRUE>> /\ WireOfOriginal /\ ValidOriginal)
        => decoded = Return(original)

\* The envelope is one of those the specification calls invalid: no version
\* marker, neither message nor ciphertext, encrypted declared true without
\* both ciphertext and algorithm, or encrypted declared false without message.
Declares(envelope, flag) ==
    LET env_meta == GetOrEmpty(envelope, K_envelope)
    IN IsDict(env_meta) /\ Has(env_meta, K_encrypted)
       /\ Get(env_meta, K_encrypted) = JBool(flag)
Malformed(envelope) ==
    \/ ~Has(envelope, K_moltspeak)
    \/ ~Has(envelope, K_message) /\ ~Has(envelope, K_ciphertext)
    \/ /\ Declares(envelope, TRUE)
       /\ ~(Has(envelope, K_ciphertext) /\ Has(Get(envelope, K_envelope), K_algorithm))
    \/ Declares(envelope, FALSE) /\ ~Has(envelope, K_message)

\* C16: unwrap_envelope rejects every invalid envelope with the descriptive
\* envelope error (ValueError "Invalid envelope: ..."); it neither returns a
\* value nor fails in another way.
C16_InvalidEnvelopeRejected ==
    (unwrap_out # NoCall /\ IsDict(unwrap_arg) /\ Malformed(unwrap_arg))
        => unwrap_out = Raise("ValueError", UE_INVALID)

\* C17: unwrapping an encrypted envelope (well-formed, carrying ciphertext
\* and no plaintext message) always raises the error that names the missing
\* decryption key; it never returns and never fails otherwise.
C17_EncryptedNeedsKey ==
    (/\ unwrap_out # NoCall
     /\ IsDict(unwrap_arg)
     /\ ~Malformed(unwrap_arg)
     /\ Has(unwrap_arg, K_ciphertext) /\ ~Has(unwrap_arg, K_message))
        => unwrap_out = Raise("ValueError", UE_ENCRYPTED)

\* C18: for every message m, unwrapping wrap(wrap(m)) once yields the inner
\* envelope wrap(m), which is not m, and unwrapping that once more yields m.
C18_NestedUnwrap ==
    /\ (Len(wrap_flags) = 2 /\ unwraps = 1)
          => /\ unwrap_out = Return(wrap_in_envelope(original, wrap_flags[1]))
             /\ held = unwrap_out.value
             /\ held # original
    /\ (Len(wrap_flags) = 2 /\ unwraps = 2)
          => /\ held = original
             /\ unwrap_out = Return(original) \/ unwrap_arg = original
C18_Witness ==
    /\ original = FullMessage
    /\ Len(wrap_flags) = 2
    /\ unwraps = 2
    /\ unwrap_arg = wrap_in_envelope(original, wrap_flags[1])
    /\ held = original

-----------------------------------------------------------------------------
(* MessageBuilder: the builder of the single-file SDK, which accumulates   *)
(* the wire dict `_message`, and the builder of the package, which keeps   *)
(* one private field per part and builds a Message.                        *)

BE_INVALID == "Invalid message: {errors}"
BE_SENDER == "Sender is required"
BE_RECIPIENT == "Recipient is required"

\* MessageBuilder(operation) of the single-file SDK, made when now() is `now`
SdkBuilder(operation, now) ==
    [api |-> "sdk",
     message |-> JObj(<< <<K_v, JStr(PROTOCOL_VERSION)>>, <<K_id, JStr(FreshUUID)>>,
                         <<K_ts, JNum(now)>>, <<K_op, operation>>,
                         <<K_cls, JStr(CLS_INTERNAL)>> >>)]
\* MessageBuilder(operation) of the package
PackageBuilder(operation) ==
    [api |-> "package", operation |-> operation, sender |-> JNull, recipient |-> JNull,
     payload |-> JObj(<<>>), classification |-> JStr(CLS_INTERNAL), pii_meta |-> JNull]

\* from_agent / to_agent: the SDK stores the identity dict under "from" or
\* "to", the package an AgentRef made of the agent and org it is given.
MessageBuilder_set_agent(b, key, identity) ==
    IF b.api = "sdk" THEN [b EXCEPT !.message = DictSet(@, key, identity)]
    ELSE LET ref == [agent |-> GetOrNone(identity, K_agent), org |-> GetOrNone(identity, K_org),
                     key |-> JNull, enc_key |-> JNull]
         IN IF key = K_from THEN [b EXCEPT !.sender = ref] ELSE [b EXCEPT !.recipient = ref]
\* payload(payload) / with_payload(payload)
MessageBuilder_payload(b, payload) ==
    IF b.api = "sdk" THEN [b EXCEPT !.message = DictSet(@, K_p, payload)]
    ELSE [b EXCEPT !.payload = payload]
\* classification(cls, pii_meta) of the SDK; classified_as(classification) of
\* the package, which takes no metadata
MessageBuilder_classification(b, cls, pii_meta) ==
    IF b.api = "sdk"
    THEN LET m == DictSet(b.message, K_cls, cls)
         IN [b EXCEPT !.message = IF cls = JStr(CLS_PII) /\ Truthy(pii_meta)
                                  THEN DictSet(m, K_pii_meta, pii_meta) ELSE m]
    ELSE [b EXCEPT !.classification = cls]

\* A build that validates and then returns the message whatever the result.
MessageBuilder_build_unchecked(b, validate, now) ==
    IF b.api = "sdk" THEN Return(deep_clone(b.message))
    ELSE IF b.sender = JNull THEN Raise("ValueError", BE_SENDER)
    ELSE IF b.recipient = JNull THEN Raise("ValueError", BE_RECIPIENT)
    ELSE Return([version |-> JStr(PROTOCOL_VERSION), message_id |-> JStr(FreshUUID),
                 timestamp |-> JNum(now), operation |-> b.operation, sender |-> b.sender,
                 recipient |-> b.recipient, payload |-> b.payload,
                 classification |-> b.classification, signature |-> JNull,
                 reply_to |-> JNull, expires |-> JNull, capabilities_required |-> JNull,
                 pii_meta |-> b.pii_meta, extensions |-> JNull])

\* build(validate) of the SDK; build() of the package, which has no validate
\* parameter and runs no validation
MessageBuilder_build(b, validate, now) ==
    IF b.api = "sdk"
    THEN IF validate /\ ~validate_message(b.message, FALSE, TRUE, now).valid
         THEN Raise("ValueError", BE_INVALID)
         ELSE Return(deep_clone(b.message))
    ELSE IF b.sender = JNull THEN Raise("ValueError", BE_SENDER)
    ELSE IF b.recipient = JNull THEN Raise("ValueError", BE_RECIPIENT)
    ELSE Return([version |-> JStr(PROTOCOL_VERSION), message_id |-> JStr(FreshUUID),
                 timestamp |-> JNum(now), operation |-> b.operation, sender |-> b.sender,
                 recipient |-> b.recipient, payload |-> b.payload,
                 classification |-> b.classification, signature |-> JNull,
                 reply_to |-> JNull, expires |-> JNull, capabilities_required |-> JNull,
                 pii_meta |-> b.pii_meta, extensions |-> JNull])

-----------------------------------------------------------------------------
(* MessageBuilder: the calls.                                              *)

SomeOperations == {JStr(<<"q", "u", "e", "r", "y">>), JStr(<<"d", "a", "n", "c", "e">>)}
SomeIdentities ==
    {JObj(<< <<K_agent, JStr(<<"a">>)>>, <<K_org, JStr(<<"x">>)>> >>),
     JObj(<< <<K_agent, JStr(<<"b">>)>>, <<K_org, JStr(<<"y">>)>> >>)}
BuilderPayloads ==
    {JObj(<< <<<<"q">>, JStr(T_clean)>> >>), JObj(<< <<<<"q">>, JStr(T_email)>> >>)}
BuilderClassified ==
    {<<JStr(CLS_PUBLIC), JNull>>, <<JStr(<<"b", "o", "g", "u", "s">>), JNull>>,
     <<JStr(CLS_PII), JNull>>,
     <<JStr(CLS_PII), JObj(<< <<K_consent, JObj(<< <<K_proof, JStr(T_token)>> >>)>> >>)>>}

InitBuilder ==
    /\ ValidationIdle
    /\ SigningIdle
    /\ CodecIdle
    /\ MaskingIdle
    /\ SessionIdle
    /\ builder \in {SdkBuilder(op, T0) : op \in SomeOperations}
                   \cup {PackageBuilder(JStr(<<"q", "u", "e", "r", "y">>))}
    /\ build_validate = TRUE
    /\ built = NoCall

FromAgent ==
    /\ \E identity \in SomeIdentities :
          builder' = MessageBuilder_set_agent(builder, K_from, identity)
    /\ built' = NoCall
    /\ UNCHANGED build_validate
    /\ UNCHANGED <<validation_vars, signing_vars, codec_vars, masking_vars, session_vars>>

ToAgent ==
    /\ \E identity \in SomeIdentities :
          builder' = MessageBuilder_set_agent(builder, K_to, identity)
    /\ built' = NoCall
    /\ UNCHANGED build_validate
    /\ UNCHANGED <<validation_vars, signing_vars, codec_vars, masking_vars, session_vars>>

Payload ==
    /\ \E payload \in BuilderPayloads : builder' = MessageBuilder_payload(builder, payload)
    /\ built' = NoCall
    /\ UNCHANGED build_validate
    /\ UNCHANGED <<validation_vars, signing_vars, codec_vars, masking_vars, session_vars>>

Classify ==
    /\ \E cm \in BuilderClassified :
          /\ builder.api = "package" => cm[2] = JNull
          /\ builder' = MessageBuilder_classification(builder, cm[1], cm[2])
    /\ built' = NoCall
    /\ UNCHANGED build_validate
    /\ UNCHANGED <<validation_vars, signing_vars, codec_vars, masking_vars, session_vars>>

\* build(validate); the package's build() takes no argument
Build ==
    /\ \E validate \in (IF builder.api = "sdk" THEN BOOLEAN ELSE {FALSE}) :
          /\ built' = MessageBuilder_build(builder, validate, clock)
          /\ build_validate' = validate
    /\ UNCHANGED builder
    /\ UNCHANGED <<validation_vars, signing_vars, codec_vars, masking_vars, session_vars>>

NextBuilder ==
    \/ FromAgent
    \/ ToAgent
    \/ Payload
    \/ Classify
    \/ Build

SpecBuilder == InitBuilder /\ [][NextBuilder]_vars

-----------------------------------------------------------------------------
(* MessageBuilder: the claims.                                             *)

NoSender ==
    IF builder.api = "sdk" THEN ~Has(builder.message, K_from) ELSE builder.sender = JNull
NoRecipient ==
    IF builder.api = "sdk" THEN ~Has(builder.message, K_to) ELSE builder.recipient = JNull

\* C19: building without a sender fails with "Sender is required", building
\* without a recipient fails with "Recipient is required" (the sender being
\* reported first when both are missing); no message is returned.
C19_SenderAndRecipientRequired ==
    built # NoCall =>
        /\ NoSender => built = Raise("ValueError", BE_SENDER)
        /\ (NoRecipient /\ ~NoSender) => built = Raise("ValueError", BE_RECIPIENT)

\* C20: build(validate=True) runs validate_message on the accumulated message
\* and raises, returning no message, exactly when the result is invalid;
\* otherwise it returns the accumulated message.
C20_BuildValidates ==
    (built # NoCall /\ builder.api = "sdk" /\ build_validate) =>
        IF validate_message(builder.message, FALSE, TRUE, clock).valid
        THEN built = Return(builder.message)
        ELSE built = Raise("ValueError", BE_INVALID)
C20_Witness ==
    /\ builder.api = "sdk"
    /\ build_validate
    /\ ~NoSender /\ ~NoRecipient
    /\ HasError(validate_message(builder.message, FALSE, TRUE, clock), E_PII)
    /\ built = Raise("ValueError", BE_INVALID)

-----------------------------------------------------------------------------
(* Signing: the claim on the keys of one pair.                             *)

\* C21: for a keypair produced by generate_keypair, a signature made with the
\* private key over a message verifies as true with the paired public key
\* over the same unmodified message.
C21_PairedKeyVerifies ==
    \A r \in 1..Len(snapshot), seed \in Seeds :
        (/\ VerifiedSignedOf(r, FALSE)
         /\ signed_with[r] = JStr(generate_keypair(seed, NACL_AVAILABLE).private)
         /\ verify_key = JStr(generate_keypair(seed, NACL_AVAILABLE).public))
        => verify_out = "True"

-----------------------------------------------------------------------------
(* Validation: the claims on agent names and future timestamps.            *)

\* The error texts of validate_message that speak of an agent name: it has
\* none (the agent checks at moltspeak.py:307-315 append warnings).
AgentNameErrors == {}
SenderName == Get(Get(message, K_from), K_agent).s
HasSenderName ==
    /\ IsDict(message) /\ Has(message, K_from) /\ IsDict(Get(message, K_from))
    /\ Has(Get(message, K_from), K_agent) /\ IsStr(Get(Get(message, K_from), K_agent))

\* C22: strict validation reports valid = false, with an error about the
\* agent name, for any message whose sender agent name is longer than 256
\* characters or contains emoji.
C22_AgentNameRejected ==
    (/\ called = "validate_message"
     /\ strict
     /\ HasSenderName
     /\ \/ Len(SenderName) > MAX_AGENT_NAME
        \/ \E i \in 1..Len(SenderName) : SenderName[i] = Emoji)
    => /\ ~result.valid
       /\ \E i \in 1..Len(result.errors) : result.errors[i].text \in AgentNameErrors

\* C26: validation accepts a timestamp only when its age relative to the
\* validation time lies between 0 and the replay window; a message whose
\* timestamp lies in the future is reported invalid.
C26_FutureTimestampRejected ==
    (called = "validate_message" /\ HasValidTimestamp(message) /\ result.valid)
    => (0 <= AgeAtValidation /\ AgeAtValidation <= MAX_AGE_MS)

-----------------------------------------------------------------------------
(* Masking: mask_pii of the single-file SDK and PIIDetector.mask of the    *)
(* package. pattern.sub needs the match the backtracking matcher settles   *)
(* on, so the patterns are written out piece by piece: a piece is a        *)
(* character class with its repeat counts (greedy), a word boundary, or    *)
(* alternatives tried in the order written.                                *)

\* cls{lo,hi}; a negative hi stands for no upper limit
Cls(set, lo, hi) == [kind |-> "cls", set |-> set, lo |-> lo, hi |-> hi, opts |-> <<>>]
One(set) == Cls(set, 1, 1)
Maybe(set) == Cls(set, 0, 1)
Many(set) == Cls(set, 1, 0 - 1)
\* \b
WB == [kind |-> "wb", set |-> {}, lo |-> 0, hi |-> 0, opts |-> <<>>]
\* (?:a|b|...)
Alt(opts) == [kind |-> "alt", set |-> {}, lo |-> 0, hi |-> 0, opts |-> opts]
\* A literal word under re.IGNORECASE.
UpperOf(c) ==
    IF c \in LowerLetters
    THEN AsciiOrder[CharRank(c) - CharRank("a") + CharRank("A")]
    ELSE c
Word(w) == [i \in 1..Len(w) |-> One({LowerOf(w[i]), UpperOf(w[i])})]

\* How many characters of the class follow position i, at most hi of them.
RunLength(text, i, set, hi) ==
    LET stop == NextOutside(text, i, set)
    IN IF hi >= 0 /\ stop - i > hi THEN hi ELSE stop - i

\* pattern.match(text, i - 1).end() + 1: the position after the match the
\* matcher finds from position i, 0 when there is none.
RECURSIVE MatchEnd(_, _, _)
RECURSIVE TryCounts(_, _, _, _)
RECURSIVE TryAlts(_, _, _, _)
TryCounts(rest, text, i, n) ==
    LET end == MatchEnd(rest, text, i + n[2])
    IN IF end # 0 THEN end
       ELSE IF n[2] > n[1] THEN TryCounts(rest, text, i, <<n[1], n[2] - 1>>)
       ELSE 0
TryAlts(opts, rest, text, i) ==
    IF opts = <<>> THEN 0
    ELSE LET end == MatchEnd(Head(opts) \o rest, text, i)
         IN IF end # 0 THEN end ELSE TryAlts(Tail(opts), rest, text, i)
MatchEnd(pat, text, i) ==
    IF pat = <<>> THEN i
    ELSE LET piece == Head(pat)
             run == RunLength(text, i, piece.set, piece.hi)
         IN CASE piece.kind = "wb" ->
                   IF IsWordAt(text, i - 1) # IsWordAt(text, i)
                   THEN MatchEnd(Tail(pat), text, i) ELSE 0
              [] piece.kind = "alt" -> TryAlts(piece.opts, Tail(pat), text, i)
              [] OTHER ->
                   IF run < piece.lo THEN 0
                   ELSE TryCounts(Tail(pat), text, i, <<piece.lo, run>>)

\* pattern.finditer(text): the spans <<first, last>> of the matches, found
\* left to right from position i on, none overlapping another.
RECURSIVE Finditer(_, _, _)
Finditer(pat, text, i) ==
    IF i > Len(text) THEN <<>>
    ELSE LET end == MatchEnd(pat, text, i)
         IN IF end > i THEN <<<<i, end - 1>>>> \o Finditer(pat, text, end)
            ELSE Finditer(pat, text, i + 1)

\* PII_PATTERNS of the single-file SDK (moltspeak.py:79-91)
RE_EMAIL ==
    <<Many(EmailLocalSet), One({"@"}), Many(EmailDomainSet), One({"."}),
      Cls(LetterSet, 2, 0 - 1)>>
RE_PHONE ==
    <<Alt(<< <<Maybe({"+"}), Cls(DigitSet, 1, 3), Maybe(SeparatorSet)>>, <<>> >>),
      Maybe({"("}), Cls(DigitSet, 3, 3), Maybe({")"}), Maybe(SeparatorSet),
      Cls(DigitSet, 3, 3), Maybe(SeparatorSet), Cls(DigitSet, 4, 4)>>
RE_SSN ==
    <<WB, Cls(DigitSet, 3, 3), Maybe({"-"}), Cls(DigitSet, 2, 2), Maybe({"-"}),
      Cls(DigitSet, 4, 4), WB>>
RE_CREDIT_CARD ==
    LET group == <<Cls(DigitSet, 4, 4), Maybe({"-", " "})>>
    IN <<WB>> \o group \o group \o group \o <<Cls(DigitSet, 4, 4), WB>>
RE_IPV4 ==
    LET group == <<Cls(DigitSet, 1, 3), One({"."})>>
    IN <<WB>> \o group \o group \o group \o <<Cls(DigitSet, 1, 3), WB>>
StreetWordList ==
    << <<"s", "t", "r", "e", "e", "t">>, <<"s", "t">>, <<"a", "v", "e", "n", "u", "e">>,
       <<"a", "v", "e">>, <<"b", "o", "u", "l", "e", "v", "a", "r", "d">>,
       <<"b", "l", "v", "d">>, <<"r", "o", "a", "d">>, <<"r", "d">>,
       <<"l", "a", "n", "e">>, <<"l", "n">>, <<"d", "r", "i", "v", "e">>, <<"d", "r">>,
       <<"c", "o", "u", "r", "t">>, <<"c", "t">>, <<"w", "a", "y">>,
       <<"p", "l", "a", "c", "e">>, <<"p", "l">> >>
RE_ADDRESS ==
    LET group == <<Many(LetterSet), Many({" "})>>
        upto1 == group
        upto2 == group \o <<Alt(<<upto1, <<>> >>)>>
        upto3 == group \o <<Alt(<<upto2, <<>> >>)>>
        upto4 == group \o <<Alt(<<upto3, <<>> >>)>>
    IN <<WB, Cls(DigitSet, 1, 5), Many({" "})>> \o upto4
       \o <<Alt([i \in 1..Len(StreetWordList) |-> Word(StreetWordList[i])]), WB>>
RE_DOB ==
    LET nonzero == DigitSet \ {"0"}
    IN <<WB,
         Alt(<< <<Maybe({"0"}), One(nonzero)>>, <<One({"1"}), One({"0", "1", "2"})>> >>),
         One({"-", "/"}),
         Alt(<< <<Maybe({"0"}), One(nonzero)>>, <<One({"1", "2"}), One(DigitSet)>>,
                <<One({"3"}), One({"0", "1"})>> >>),
         One({"-", "/"}),
         Alt(<< <<One({"1"}), One({"9"})>>, <<One({"2"}), One({"0"})>> >>),
         Cls(DigitSet, 2, 2), WB>>
\* The patterns in the dictionary's order, as PII_TYPES names them.
RE_PII_PATTERNS ==
    <<RE_EMAIL, RE_PHONE, RE_SSN, RE_CREDIT_CARD, RE_IPV4, RE_ADDRESS, RE_DOB>>

\* PIIDetector.PATTERNS of the package (classification.py:66-73), in the
\* dictionary's order: email, phone, ssn, credit_card, ip_address,
\* date_of_birth
DetectorPatterns ==
    LET quad == <<Cls(DigitSet, 4, 4), Maybe({"-", " "})>>
        octet == <<Cls(DigitSet, 1, 3), One({"."})>>
    IN <<RE_EMAIL,
         <<Maybe({"+"}), One(DigitSet \ {"0"}), Cls(DigitSet, 1, 14)>>,
         <<Cls(DigitSet, 3, 3), One({"-"}), Cls(DigitSet, 2, 2), One({"-"}),
           Cls(DigitSet, 4, 4)>>,
         quad \o quad \o quad \o <<Cls(DigitSet, 4, 4)>>,
         octet \o octet \o octet \o <<Cls(DigitSet, 1, 3)>>,
         <<Cls(DigitSet, 1, 2), One({"/", "-"}), Cls(DigitSet, 1, 2), One({"/", "-"}),
           Cls(DigitSet, 2, 4)>> >>

\* mask_char * n
Repeat(mask_char, n) == [i \in 1..n |-> mask_char]

\* mask_match(match) inside mask_pii
mask_match(value, mask_char) ==
    IF Len(value) <= 4 THEN Repeat(mask_char, Len(value))
    ELSE <<value[1]>> \o Repeat(mask_char, Len(value) - 2) \o <<value[Len(value)]>>
\* _mask_match(match) inside PIIDetector.mask
Detector_mask_match(value, mask_char) ==
    IF Len(value) <= 4 THEN Repeat(mask_char, Len(value))
    ELSE SubSeq(value, 1, 2) \o Repeat(mask_char, Len(value) - 4)
         \o SubSeq(value, Len(value) - 1, Len(value))

\* pattern.sub(mask_match, text), the replacement being as long as the match
re_sub(pat, text, package, mask_char) ==
    LET spans == Finditer(pat, text, 1)
        span(p) == CHOOSE k \in 1..Len(spans) : spans[k][1] <= p /\ p <= spans[k][2]
        value(k) == SubSeq(text, spans[k][1], spans[k][2])
        replaced(k) == IF package THEN Detector_mask_match(value(k), mask_char)
                       ELSE mask_match(value(k), mask_char)
    IN [p \in 1..Len(text) |->
          IF \E k \in 1..Len(spans) : spans[k][1] <= p /\ p <= spans[k][2]
          THEN replaced(span(p))[p - spans[span(p)][1] + 1]
          ELSE text[p]]

\* One pattern after the other, each on what the one before left.
RECURSIVE MaskPasses(_, _, _, _)
MaskPasses(patterns, text, package, mask_char) ==
    IF patterns = <<>> THEN text
    ELSE MaskPasses(Tail(patterns), re_sub(Head(patterns), text, package, mask_char),
                    package, mask_char)

\* mask_pii(text, types, mask_char), types being None (all) or a list of names
mask_pii(text, types, mask_char) ==
    LET types_to_mask == IF types = <<>> THEN PII_TYPES ELSE types
        index(name) == CHOOSE i \in 1..Len(PII_TYPES) : PII_TYPES[i] = name
        known == SelectSeq(types_to_mask,
                           LAMBDA name : \E i \in 1..Len(PII_TYPES) : PII_TYPES[i] = name)
    IN MaskPasses([k \in 1..Len(known) |-> RE_PII_PATTERNS[index(known[k])]],
                  text, FALSE, mask_char)

\* PIIDetector.mask(text, mask_char)
PIIDetector_mask(text, mask_char) == MaskPasses(DetectorPatterns, text, TRUE, mask_char)

(***************************************************************************)
(* Masking: a run masks one text and then masks the result again           *)
(***************************************************************************)

\* The texts that hold the PII (or none) of a run.
MaskCores ==
    {<<"h", "i">>,
     <<"a", "@", "b", ".", "c", "o">>,
     <<"t", "e", "s", "t", "@", "e", "x", "a", "m", "p", "l", "e", ".", "c", "o", "m">>,
     <<"1", "2">>,
     <<"1", "2", "3", "4", "5", "6">>,
     <<"1", "2", "3", "-", "4", "5", "-", "6", "7", "8", "9">>,
     <<"5", "5", "5", "-", "1", "2", "3", "-", "4", "5", "6", "7">>,
     <<"4", "1", "1", "1", " ", "1", "1", "1", "1", " ", "1", "1", "1", "1", " ", "1", "1", "1", "1">>,
     <<"1", "0", ".", "0", ".", "0", ".", "1">>,
     <<"1", "/", "2", "/", "1", "9", "9", "9">>,
     <<"5", " ", "M", "a", "i", "n", " ", "S", "t">>,
     <<"1", "2", "3", "4">>}

\* The texts handed to mask: a core, alone or inside a sentence.
MaskTexts ==
    {pre \o core \o post : pre \in {<<>>, <<"x", " ">>}, core \in MaskCores,
                           post \in {<<>>, <<" ", "y">>}}

\* mask of the implementation the run drives
MaskOf(api, text, types, mask_char) ==
    IF api = "sdk" THEN mask_pii(text, types, mask_char)
    ELSE PIIDetector_mask(text, mask_char)

InitMasking ==
    /\ mask_api \in {"sdk", "package"}
    /\ mask_text \in MaskTexts
    /\ mask_types \in (IF mask_api = "sdk" THEN {<<>>, <<"email">>} ELSE {<<>>})
    /\ mask_with \in {"*", "#"}
    /\ mask_calls = 0
    /\ masked = <<>>
    /\ remasked = <<>>
    /\ ValidationIdle
    /\ SigningIdle
    /\ CodecIdle
    /\ BuilderIdle
    /\ SessionIdle

\* masked = mask(text)
Mask ==
    /\ mask_calls = 0
    /\ masked' = MaskOf(mask_api, mask_text, mask_types, mask_with)
    /\ mask_calls' = 1
    /\ UNCHANGED <<mask_api, mask_text, mask_types, mask_with, remasked>>
    /\ UNCHANGED <<validation_vars, signing_vars, codec_vars, builder_vars, session_vars>>

\* remasked = mask(masked)
MaskAgain ==
    /\ mask_calls = 1
    /\ remasked' = MaskOf(mask_api, masked, mask_types, mask_with)
    /\ mask_calls' = 2
    /\ UNCHANGED <<mask_api, mask_text, mask_types, mask_with, masked>>
    /\ UNCHANGED <<validation_vars, signing_vars, codec_vars, builder_vars, session_vars>>

NextMasking == Mask \/ MaskAgain

SpecMasking == InitMasking /\ [][NextMasking]_vars

\* The patterns a mask call of the run applies.
MaskPatterns ==
    IF mask_api = "package" THEN DetectorPatterns
    ELSE IF mask_types = <<>> THEN RE_PII_PATTERNS
    ELSE <<RE_EMAIL>>

\* The matches of the patterns in the text handed to mask, as spans.
MaskSpans ==
    UNION {{Finditer(MaskPatterns[k], mask_text, 1)[j] :
              j \in 1..Len(Finditer(MaskPatterns[k], mask_text, 1))} :
           k \in 1..Len(MaskPatterns)}

\* No two matches share a character.
DisjointSpans ==
    \A a, b \in MaskSpans : a = b \/ a[2] < b[1] \/ b[2] < a[1]

\* C23: mask replaces, in every PII match longer than 4 characters, every
\* character except the first and the last with the mask character, fully
\* masks matches of length 4 or less, and leaves text outside matches
\* unchanged (stated for texts whose matches share no character).
C23_MaskKeepsEnds ==
    (mask_calls >= 1 /\ DisjointSpans) =>
        /\ Len(masked) = Len(mask_text)
        /\ \A p \in 1..Len(mask_text) :
             LET inside == {sp \in MaskSpans : sp[1] <= p /\ p <= sp[2]}
             IN IF inside = {} THEN masked[p] = mask_text[p]
                ELSE \A sp \in inside :
                       IF sp[2] - sp[1] + 1 <= 4 \/ (sp[1] < p /\ p < sp[2])
                       THEN masked[p] = mask_with
                       ELSE masked[p] = mask_text[p]

\* C23 for the single-file SDK alone.
C23_SdkMaskKeepsEnds == mask_api = "sdk" => C23_MaskKeepsEnds

\* Whether the implementation's own detector finds PII in the text.
DetectsPII(api, text) ==
    IF api = "sdk" THEN detect_pii(JStr(text)).has_pii
    ELSE PIIDetector_detect(text) # {}

\* C24: masking is idempotent, mask(mask(text)) = mask(text), for a text in
\* which no PII is left to detect after the first pass.
C24_MaskIdempotent ==
    (mask_calls = 2 /\ ~DetectsPII(mask_api, masked)) => remasked = masked

\* A first pass that masked something and left nothing to detect, and a
\* second pass that returned the first one's result.
C24_Witness ==
    /\ mask_calls = 2
    /\ masked # mask_text
    /\ ~DetectsPII(mask_api, masked)
    /\ remasked = masked

(***************************************************************************)
(* Codec: the claim on how a validation failure is reported                *)
(***************************************************************************)

\* C25: build(validate=True) is the only operation in which a validation
\* failure surfaces as a raised error; every other operation, decoding an
\* inbound JSON message included, reports validation failures only through a
\* returned ValidationResult. Checked on decode: it never ends by raising
\* for a message that failed validation.
C25_DecodeNeverRaisesOnInvalid ==
    decoded.raised = "" \/ decoded.says # DE_MESSAGE

-----------------------------------------------------------------------------
(* Sessions (moltspeak/session.py). A Session is modelled by the fields    *)
(* the manager reads: its id, its remote agent, when it expires and when   *)
(* it was last active. secrets.token_hex(16) is idealised as handing out   *)
(* ids that never repeat, and one operation reads one time from the clock. *)

\* None, where a Session is expected
NoSession == [session_id |-> 0, remote_agent |-> "", expires_at |-> 0, last_activity |-> 0]

\* Session.create(local_agent, remote_agent, remote_org, remote_public_key,
\* ttl_seconds) at time now, session_id being what token_hex returned
Session_create(session_id, remote_agent, ttl_seconds, now) ==
    [session_id |-> session_id, remote_agent |-> remote_agent,
     expires_at |-> now + (ttl_seconds * 1000), last_activity |-> now]

\* Session.is_expired() and Session.is_valid() at time now
is_expired(session, now) == now > session.expires_at
is_valid(session, now) == ~is_expired(session, now)

\* Session.touch() at time now
touch(session, now) == [session EXCEPT !.last_activity = now]

\* SessionManager.__init__: both dictionaries empty
NewManager == [sessions |-> <<>>, by_remote |-> <<>>]

\* session_id in self._sessions, and self._sessions[session_id]
IdsOf(store) == {store[i].session_id : i \in 1..Len(store)}
Stored(store, session_id) ==
    store[CHOOSE i \in 1..Len(store) : store[i].session_id = session_id]
\* remote_agent in self._by_remote, and self._by_remote.get(remote_agent, [])
Listed(index, remote_agent) ==
    \E i \in 1..Len(index) : index[i].remote_agent = remote_agent
IdsFor(index, remote_agent) ==
    IF Listed(index, remote_agent)
    THEN index[CHOOSE i \in 1..Len(index) : index[i].remote_agent = remote_agent].ids
    ELSE <<>>

\* SessionManager.remove, were it to leave the per-remote index alone.
SessionManager_remove_store_only(mgr, session_id) ==
    [sessions |-> SelectSeq(mgr.sessions, LAMBDA s : s.session_id # session_id),
     by_remote |-> mgr.by_remote]

\* SessionManager.remove(session_id)
SessionManager_remove(mgr, session_id) ==
    IF session_id \notin IdsOf(mgr.sessions) THEN mgr
    ELSE LET session == Stored(mgr.sessions, session_id)
         IN [sessions |-> SelectSeq(mgr.sessions, LAMBDA s : s.session_id # session_id),
             by_remote |->
                 [i \in 1..Len(mgr.by_remote) |->
                    IF mgr.by_remote[i].remote_agent = session.remote_agent
                    THEN [remote_agent |-> session.remote_agent,
                          ids |-> SelectSeq(mgr.by_remote[i].ids,
                                            LAMBDA sid : sid # session_id)]
                    ELSE mgr.by_remote[i]]]

\* for sid in expired: self.remove(sid)
RECURSIVE RemoveEach(_, _)
RemoveEach(mgr, ids) ==
    IF ids = <<>> THEN mgr
    ELSE RemoveEach(SessionManager_remove(mgr, Head(ids)), Tail(ids))

\* SessionManager._cleanup_expired() at time now
SessionManager_cleanup_expired(mgr, now) ==
    LET expired == SelectSeq(mgr.sessions, LAMBDA s : is_expired(s, now))
    IN RemoveEach(mgr, [i \in 1..Len(expired) |-> expired[i].session_id])

\* The oldest session, were it the one stored first.
Oldest_stored_first(store) == store[1]

\* min(self._sessions.values(), key=lambda s: s.last_activity): the first, in
\* the dictionary's order, of the sessions with the smallest last_activity
Oldest(store) ==
    store[CHOOSE i \in 1..Len(store) :
            /\ \A j \in 1..Len(store) : store[i].last_activity <= store[j].last_activity
            /\ \A j \in 1..(i - 1) : store[i].last_activity < store[j].last_activity]

\* SessionManager.create, were it to store the session without the limit.
SessionManager_create_unbounded(mgr, remote_agent, ttl_seconds, limits, now, token) ==
    LET cleaned == SessionManager_cleanup_expired(mgr, now)
        session == Session_create(token, remote_agent,
                                  IF ttl_seconds # 0 THEN ttl_seconds ELSE limits[2], now)
        index == IF Listed(cleaned.by_remote, remote_agent) THEN cleaned.by_remote
                 ELSE Append(cleaned.by_remote, [remote_agent |-> remote_agent, ids |-> <<>>])
    IN [mgr |-> [sessions |-> Append(cleaned.sessions, session),
                 by_remote |-> [i \in 1..Len(index) |->
                                  IF index[i].remote_agent = remote_agent
                                  THEN [remote_agent |-> remote_agent,
                                        ids |-> Append(index[i].ids, token)]
                                  ELSE index[i]]],
        out |-> session]

\* SessionManager.create(local_agent, remote_agent, remote_org,
\* remote_public_key, ttl_seconds) at time now; limits are max_sessions and
\* default_ttl, ttl_seconds 0 stands for None as well (ttl_seconds or default)
SessionManager_create(mgr, remote_agent, ttl_seconds, limits, now, token) ==
    LET cleaned == SessionManager_cleanup_expired(mgr, now)
        room == IF Len(cleaned.sessions) >= limits[1]
                THEN SessionManager_remove(cleaned, Oldest(cleaned.sessions).session_id)
                ELSE cleaned
        session == Session_create(token, remote_agent,
                                  IF ttl_seconds # 0 THEN ttl_seconds ELSE limits[2], now)
        index == IF Listed(room.by_remote, remote_agent) THEN room.by_remote
                 ELSE Append(room.by_remote, [remote_agent |-> remote_agent, ids |-> <<>>])
    IN [mgr |-> [sessions |-> Append(room.sessions, session),
                 by_remote |-> [i \in 1..Len(index) |->
                                  IF index[i].remote_agent = remote_agent
                                  THEN [remote_agent |-> remote_agent,
                                        ids |-> Append(index[i].ids, token)]
                                  ELSE index[i]]],
        out |-> session]

\* SessionManager.get, were it to return what is stored, expired or not.
SessionManager_get_unchecked(mgr, session_id, now) ==
    IF session_id \notin IdsOf(mgr.sessions) THEN [mgr |-> mgr, out |-> NoSession]
    ELSE [mgr |-> mgr, out |-> Stored(mgr.sessions, session_id)]

\* SessionManager.get(session_id) at time now
SessionManager_get(mgr, session_id, now) ==
    IF session_id \notin IdsOf(mgr.sessions) THEN [mgr |-> mgr, out |-> NoSession]
    ELSE IF is_expired(Stored(mgr.sessions, session_id), now)
    THEN [mgr |-> SessionManager_remove(mgr, session_id), out |-> NoSession]
    ELSE [mgr |-> mgr, out |-> Stored(mgr.sessions, session_id)]

\* for sid in session_ids: the loop of get_for_remote over the list it read
\* before the first get
RECURSIVE FirstValid(_, _, _)
FirstValid(mgr, session_ids, now) ==
    IF session_ids = <<>> THEN [mgr |-> mgr, out |-> NoSession]
    ELSE LET got == SessionManager_get(mgr, Head(session_ids), now)
         IN IF got.out # NoSession /\ is_valid(got.out, now) THEN got
            ELSE FirstValid(got.mgr, Tail(session_ids), now)

\* SessionManager.get_for_remote(remote_agent) at time now
SessionManager_get_for_remote(mgr, remote_agent, now) ==
    FirstValid(mgr, IdsFor(mgr.by_remote, remote_agent), now)

(***************************************************************************)
(* Sessions: a run creates, looks up, touches and removes sessions         *)
(***************************************************************************)

MaxCapacity == 2     \* the largest max_sessions of a run
MaxTokens == 3       \* sessions a run may create
MaxSeconds == 2      \* seconds the clock may advance
SomeRemotes == {"a", "b"}
\* ttl_seconds of a create call: None (0 stands for it as well), one second
SomeTtls == {0, 1}

Manager == [sessions |-> sessions, by_remote |-> by_remote]
Call(op, session_id, remote_agent) ==
    [op |-> op, session_id |-> session_id, remote_agent |-> remote_agent]
NoSessionCall == Call("none", 0, "")

InitSession ==
    /\ sessions = NewManager.sessions
    /\ by_remote = NewManager.by_remote
    /\ max_sessions \in 1..MaxCapacity
    /\ default_ttl = 1
    /\ time_ms = T0
    /\ tokens = 0
    /\ session_call = NoSessionCall
    /\ session_out = NoSession
    /\ sessions_before = <<>>
    /\ ValidationIdle
    /\ SigningIdle
    /\ CodecIdle
    /\ BuilderIdle
    /\ MaskingIdle

\* A second passes; what the last call returned is forgotten.
Advance ==
    /\ time_ms < T0 + MaxSeconds * OneSecond
    /\ time_ms' = time_ms + OneSecond
    /\ session_call' = NoSessionCall
    /\ session_out' = NoSession
    /\ sessions_before' = <<>>
    /\ UNCHANGED <<sessions, by_remote, max_sessions, default_ttl, tokens>>
    /\ UNCHANGED <<validation_vars, signing_vars, codec_vars, builder_vars, masking_vars>>

\* manager.create(..., remote_agent, ..., ttl_seconds)
CreateSession ==
    /\ tokens < MaxTokens
    /\ \E remote_agent \in SomeRemotes, ttl_seconds \in SomeTtls :
          LET done == SessionManager_create(Manager, remote_agent, ttl_seconds,
                                            <<max_sessions, default_ttl>>, time_ms,
                                            tokens + 1)
          IN /\ sessions' = done.mgr.sessions
             /\ by_remote' = done.mgr.by_remote
             /\ session_out' = done.out
             /\ session_call' = Call("create", tokens + 1, remote_agent)
    /\ tokens' = tokens + 1
    /\ sessions_before' = sessions
    /\ UNCHANGED <<max_sessions, default_ttl, time_ms>>
    /\ UNCHANGED <<validation_vars, signing_vars, codec_vars, builder_vars, masking_vars>>

\* manager.get(session_id), for an id the manager handed out
GetSession ==
    /\ \E session_id \in 1..tokens :
          LET done == SessionManager_get(Manager, session_id, time_ms)
          IN /\ sessions' = done.mgr.sessions
             /\ by_remote' = done.mgr.by_remote
             /\ session_out' = done.out
             /\ session_call' = Call("get", session_id, "")
    /\ sessions_before' = sessions
    /\ UNCHANGED <<max_sessions, default_ttl, time_ms, tokens>>
    /\ UNCHANGED <<validation_vars, signing_vars, codec_vars, builder_vars, masking_vars>>

\* manager.get_for_remote(remote_agent)
GetForRemote ==
    /\ \E remote_agent \in SomeRemotes :
          LET done == SessionManager_get_for_remote(Manager, remote_agent, time_ms)
          IN /\ sessions' = done.mgr.sessions
             /\ by_remote' = done.mgr.by_remote
             /\ session_out' = done.out
             /\ session_call' = Call("get_for_remote", 0, remote_agent)
    /\ sessions_before' = sessions
    /\ UNCHANGED <<max_sessions, default_ttl, time_ms, tokens>>
    /\ UNCHANGED <<validation_vars, signing_vars, codec_vars, builder_vars, masking_vars>>

\* manager.remove(session_id), for an id the manager handed out
RemoveSession ==
    /\ \E session_id \in 1..tokens :
          LET done == SessionManager_remove(Manager, session_id)
          IN /\ sessions' = done.sessions
             /\ by_remote' = done.by_remote
             /\ session_call' = Call("remove", session_id, "")
    /\ session_out' = NoSession
    /\ sessions_before' = sessions
    /\ UNCHANGED <<max_sessions, default_ttl, time_ms, tokens>>
    /\ UNCHANGED <<validation_vars, signing_vars, codec_vars, builder_vars, masking_vars>>

\* session.touch() on a stored session
TouchSession ==
    /\ \E i \in 1..Len(sessions) :
          /\ sessions[i].last_activity < time_ms
          /\ sessions' = [sessions EXCEPT ![i] = touch(sessions[i], time_ms)]
          /\ session_call' = Call("touch", sessions[i].session_id, "")
    /\ session_out' = NoSession
    /\ sessions_before' = sessions
    /\ UNCHANGED <<by_remote, max_sessions, default_ttl, time_ms, tokens>>
    /\ UNCHANGED <<validation_vars, signing_vars, codec_vars, builder_vars, masking_vars>>

NextSession ==
    Advance \/ CreateSession \/ GetSession \/ GetForRemote \/ RemoveSession \/ TouchSession

SpecSession == InitSession /\ [][NextSession]_vars

\* C27: after any sequence of create, get, get_for_remote and remove calls
\* (max_sessions at least 1) the number of stored sessions never exceeds
\* max_sessions.
C27_StoreWithinLimit ==
    max_sessions >= 1 => Len(sessions) <= max_sessions

\* A create that found the store full and left it full.
C27_Witness ==
    /\ session_call.op = "create"
    /\ Len(sessions_before) = max_sessions
    /\ \A i \in 1..Len(sessions_before) : is_valid(sessions_before[i], time_ms)
    /\ Len(sessions) = max_sessions

\* The sessions of a store, as a set.
SessionsIn(store) == {store[i] : i \in 1..Len(store)}
\* Where the per-remote index lists a session id: the remote agents' entries
\* and the positions in them.
ListedAt(session_id) ==
    {ik \in {<<i, k>> : i \in 1..Len(by_remote), k \in 1..MaxTokens} :
        /\ ik[2] <= Len(by_remote[ik[1]].ids)
        /\ by_remote[ik[1]].ids[ik[2]] = session_id}

\* C28: after every SessionManager operation the per-remote index and the
\* session store agree: each session id listed under a remote agent is a
\* stored session belonging to that remote agent, and each stored session
\* is listed exactly once under its remote agent.
C28_IndexAgreesWithStore ==
    /\ \A i \in 1..Len(by_remote) : \A k \in 1..Len(by_remote[i].ids) :
          /\ by_remote[i].ids[k] \in IdsOf(sessions)
          /\ Stored(sessions, by_remote[i].ids[k]).remote_agent = by_remote[i].remote_agent
    /\ \A j \in 1..Len(sessions) :
          /\ Cardinality(ListedAt(sessions[j].session_id)) = 1
          /\ \A ik \in ListedAt(sessions[j].session_id) :
                by_remote[ik[1]].remote_agent = sessions[j].remote_agent

\* A remove that took one of two sessions of the same remote agent out of
\* the store.
C28_Witness ==
    /\ session_call.op = "remove"
    /\ session_call.session_id \in IdsOf(sessions_before)
    /\ session_call.session_id \notin IdsOf(sessions)
    /\ \E j \in 1..Len(sessions) :
          sessions[j].remote_agent
              = Stored(sessions_before, session_call.session_id).remote_agent

\* C29: get and get_for_remote never return a session that is expired at the
\* time of the call; an expired session looked up by get is removed from the
\* store and None is returned.
C29_NoExpiredReturned ==
    /\ (session_call.op \in {"get", "get_for_remote"} /\ session_out # NoSession)
          => is_valid(session_out, time_ms)
    /\ (/\ session_call.op = "get"
        /\ session_call.session_id \in IdsOf(sessions_before)
        /\ is_expired(Stored(sessions_before, session_call.session_id), time_ms))
          => /\ session_out = NoSession
             /\ session_call.session_id \notin IdsOf(sessions)

\* A get of a stored session that had expired: None, and the session gone.
C29_Witness ==
    /\ session_call.op = "get"
    /\ session_call.session_id \in IdsOf(sessions_before)
    /\ is_expired(Stored(sessions_before, session_call.session_id), time_ms)
    /\ session_out = NoSession
    /\ session_call.session_id \notin IdsOf(sessions)

\* The sessions the last call found unexpired, and those of them it removed.
UnexpiredBefore == {s \in SessionsIn(sessions_before) : is_valid(s, time_ms)}
RemovedUnexpired == UnexpiredBefore \ SessionsIn(sessions)

\* C30: when create is called while the store already holds max_sessions
\* unexpired sessions, exactly one existing session is removed, namely one
\* with the smallest last_activity, and the new session is stored; when the
\* store is below capacity, create removes no unexpired session.
C30_CreateEvictsOldest ==
    session_call.op = "create" =>
        /\ Cardinality(UnexpiredBefore) = max_sessions =>
              /\ Cardinality(SessionsIn(sessions_before) \ SessionsIn(sessions)) = 1
              /\ \A gone \in SessionsIn(sessions_before) \ SessionsIn(sessions) :
                    \A s \in SessionsIn(sessions_before) :
                        gone.last_activity <= s.last_activity
              /\ session_out \in SessionsIn(sessions)
              /\ session_out.session_id \notin IdsOf(sessions_before)
        /\ Len(sessions_before) < max_sessions => RemovedUnexpired = {}

\* A create that found the store full of unexpired sessions and removed one
\* that was not the first stored.
C30_Witness ==
    /\ session_call.op = "create"
    /\ Cardinality(UnexpiredBefore) = max_sessions
    /\ sessions_before[1] \in SessionsIn(sessions)
    /\ Cardinality(RemovedUnexpired) = 1
    /\ session_out \in SessionsIn(sessions)

=============================================================================
